---- MODULE Spec2Model ----
(***************************************************************************)
(* A model of speedate: Date / Time / DateTime construction from RFC 3339  *)
(* text and from Unix timestamps, and the timezone conversions.            *)
(*                                                                         *)
(* The library is a set of pure functions.  Each one is an operator here,  *)
(* computed as the Rust code computes it, and each public entry point is   *)
(* an action that draws its arguments from a bounded set and records the   *)
(* call in (op, inp, out).                                                 *)
(*                                                                         *)
(* TLC's integers are 32 bits wide and the code works on i64 timestamps,   *)
(* so an i64 is a sign and a magnitude of five base-10^4 limbs, least      *)
(* significant first (10^20 > 2^64).                                       *)
(***************************************************************************)
EXTENDS Integers, Sequences, FiniteSets, TLC

VARIABLES op, inp, out

vars == <<op, inp, out>>

(***************************************************************************)
(* Result<T, ParseError>                                                   *)
(***************************************************************************)
Ok(v) == [ok |-> TRUE, v |-> v, e |-> "none"]

Err(e) == [ok |-> FALSE, v |-> "none", e |-> e]

IsErr(r, e) == (~r.ok) /\ r.e = e

(***************************************************************************)
(* i64 arithmetic on limbs                                                 *)
(***************************************************************************)
Base == 100 * 100

MagZero == <<0, 0, 0, 0, 0>>

\* -1, 0 or 1 as magnitude a is below, equal to or above magnitude b
MagCmp(a, b) ==
    IF a = b THEN 0
    ELSE LET i == CHOOSE i \in 1..5 : a[i] # b[i] /\ \A j \in (i + 1)..5 : a[j] = b[j]
         IN  IF a[i] < b[i] THEN -1 ELSE 1

MagAdd(a, b) ==
    LET s1 == a[1] + b[1]
        s2 == a[2] + b[2] + (s1 \div Base)
        s3 == a[3] + b[3] + (s2 \div Base)
        s4 == a[4] + b[4] + (s3 \div Base)
        s5 == a[5] + b[5] + (s4 \div Base)
    IN  <<s1 % Base, s2 % Base, s3 % Base, s4 % Base, s5>>

\* a - b for magnitudes a >= b
MagSub(a, b) ==
    LET d1 == a[1] - b[1]
        d2 == a[2] - b[2] - (IF d1 < 0 THEN 1 ELSE 0)
        d3 == a[3] - b[3] - (IF d2 < 0 THEN 1 ELSE 0)
        d4 == a[4] - b[4] - (IF d3 < 0 THEN 1 ELSE 0)
        d5 == a[5] - b[5] - (IF d4 < 0 THEN 1 ELSE 0)
    IN  <<d1 % Base, d2 % Base, d3 % Base, d4 % Base, d5>>

\* a * k for 0 <= k <= 86_400
MagMulSmall(a, k) ==
    LET p1 == a[1] * k
        p2 == a[2] * k + (p1 \div Base)
        p3 == a[3] * k + (p2 \div Base)
        p4 == a[4] * k + (p3 \div Base)
        p5 == a[5] * k + (p4 \div Base)
    IN  <<p1 % Base, p2 % Base, p3 % Base, p4 % Base, p5>>

\* quotient and remainder of a by k, 0 < k <= 86_400 (long division)
MagDivSmall(a, k) ==
    LET q5 == a[5] \div k
        r5 == a[5] % k
        t4 == r5 * Base + a[4]
        t3 == (t4 % k) * Base + a[3]
        t2 == (t3 % k) * Base + a[2]
        t1 == (t2 % k) * Base + a[1]
    IN  [q |-> <<t1 \div k, t2 \div k, t3 \div k, t4 \div k, q5>>, r |-> t1 % k]

\* an i64 value: zero is never negative
WMk(neg, m) == [neg |-> neg /\ m # MagZero, m |-> m]

\* the i64 of a model integer
W(n) ==
    LET a == IF n < 0 THEN -n ELSE n
    IN  WMk(n < 0, <<a % Base, (a \div Base) % Base, a \div (Base * Base), 0, 0>>)

\* the model integer of an i64 below 2^31 in absolute value
WToInt(w) ==
    LET a == w.m[1] + w.m[2] * Base + w.m[3] * Base * Base
    IN  IF w.neg THEN -a ELSE a

WNeg(w) == WMk(~w.neg, w.m)

WAdd(x, y) ==
    IF x.neg = y.neg THEN WMk(x.neg, MagAdd(x.m, y.m))
    ELSE IF MagCmp(x.m, y.m) >= 0 THEN WMk(x.neg, MagSub(x.m, y.m))
    ELSE WMk(y.neg, MagSub(y.m, x.m))

WSub(x, y) == WAdd(x, WNeg(y))

WCmp(x, y) ==
    IF x.neg # y.neg THEN (IF x.neg THEN -1 ELSE 1)
    ELSE IF x.neg THEN MagCmp(y.m, x.m)
    ELSE MagCmp(x.m, y.m)

WLt(x, y) == WCmp(x, y) < 0

WLe(x, y) == WCmp(x, y) <= 0

WMulSmall(w, k) == WMk(w.neg, MagMulSmall(w.m, k))

\* Rust's `/` on i64: the quotient truncated toward zero
WDivTrunc(w, k) == WMk(w.neg, MagDivSmall(w.m, k).q)

\* Rust's `%` on i64: the remainder has the sign of the dividend
WRemTrunc(w, k) ==
    LET r == MagDivSmall(w.m, k).r
    IN  IF w.neg THEN -r ELSE r

\* i64::rem_euclid: the remainder in 0..k-1
WRemEuclid(w, k) ==
    LET r == WRemTrunc(w, k)
    IN  IF r < 0 THEN r + k ELSE r

\* a * 1000 + b, both of one sign: how the literals below are written
WThousands(a, b) == WAdd(WMulSmall(W(a), 1000), W(b))

I64_MAX == WMk(FALSE, <<5807, 5477, 368, 3372, 922>>)

I64_MIN == WMk(TRUE, <<5808, 5477, 368, 3372, 922>>)

U32_MAX == WThousands(4294967, 295)

Option_None == [some |-> FALSE, v |-> 0]

Some(x) == [some |-> TRUE, v |-> x]

\* i64::checked_abs: None for i64::MIN
checked_abs(w) == IF w = I64_MIN THEN Option_None ELSE Some(WMk(FALSE, w.m))

\* i64::checked_add: None when the sum leaves the i64 range
checked_add(x, y) ==
    LET s == WAdd(x, y)
    IN  IF WLt(I64_MAX, s) \/ WLt(s, I64_MIN) THEN Option_None ELSE Some(s)

\* `as i16` and `as u8` of a value that fits an i32
AsI16(x) == ((x + 32768) % 65536) - 32768

AsU8(x) == x % 256

(***************************************************************************)
(* date.rs: constants and calendar helpers                                 *)
(***************************************************************************)
\* MS_WATERSHED with a zero dropped
MS_WATERSHED_ten_digits == WThousands(2000000, 0)

MS_WATERSHED == WThousands(20000000, 0)

\* UNIX_9999 one second late
UNIX_9999_one_late == WThousands(253402300, 800)

UNIX_9999 == WThousands(253402300, 799)

UNIX_0000 == WThousands(-62167219, -200)

\* is_leap_year with the century rule forgotten
is_leap_year_every_fourth(year) == year % 4 = 0

is_leap_year(year) ==
    IF year % 100 = 0 THEN year % 400 = 0 ELSE year % 4 = 0

\* intervening_leap_years with the leap year 0 forgotten
intervening_leap_years_without_year_zero(delta_years) ==
    IF delta_years = 0 THEN 0
    ELSE ((delta_years - 1) \div 4) - ((delta_years - 1) \div 100)
         + ((delta_years - 1) \div 400)

intervening_leap_years(delta_years) ==
    IF delta_years = 0 THEN 0
    ELSE ((delta_years - 1) \div 4) - ((delta_years - 1) \div 100)
         + ((delta_years - 1) \div 400) + 1

leap_year_month_day(day) ==
    IF day \in 1..31 THEN <<1, AsU8(day)>>
    ELSE IF day \in 32..60 THEN <<2, AsU8(day) - 31>>
    ELSE IF day \in 61..91 THEN <<3, AsU8(day) - 60>>
    ELSE IF day \in 92..121 THEN <<4, AsU8(day) - 91>>
    ELSE IF day \in 122..152 THEN <<5, AsU8(day) - 121>>
    ELSE IF day \in 153..182 THEN <<6, AsU8(day) - 152>>
    ELSE IF day \in 183..213 THEN <<7, AsU8(day) - 182>>
    ELSE IF day \in 214..244 THEN <<8, AsU8(day) - 213>>
    ELSE IF day \in 245..274 THEN <<9, AsU8(day - 244)>>
    ELSE IF day \in 275..305 THEN <<10, AsU8(day - 274)>>
    ELSE IF day \in 306..335 THEN <<11, AsU8(day - 305)>>
    ELSE <<12, AsU8(day - 335)>>

common_year_month_day(day) ==
    IF day \in 1..31 THEN <<1, AsU8(day)>>
    ELSE IF day \in 32..59 THEN <<2, AsU8(day) - 31>>
    ELSE IF day \in 60..90 THEN <<3, AsU8(day) - 59>>
    ELSE IF day \in 91..120 THEN <<4, AsU8(day) - 90>>
    ELSE IF day \in 121..151 THEN <<5, AsU8(day) - 120>>
    ELSE IF day \in 152..181 THEN <<6, AsU8(day) - 151>>
    ELSE IF day \in 182..212 THEN <<7, AsU8(day) - 181>>
    ELSE IF day \in 213..243 THEN <<8, AsU8(day) - 212>>
    ELSE IF day \in 244..273 THEN <<9, AsU8(day - 243)>>
    ELSE IF day \in 274..304 THEN <<10, AsU8(day - 273)>>
    ELSE IF day \in 305..334 THEN <<11, AsU8(day - 304)>>
    ELSE <<12, AsU8(day - 334)>>

Date(year, month, day) == [year |-> year, month |-> month, day |-> day]

\* Date::ordinal_day
ordinal_day(d) ==
    LET leap_extra == IF is_leap_year(d.year) THEN 1 ELSE 0
    IN  CASE d.month = 1 -> d.day
          [] d.month = 2 -> d.day + 31
          [] d.month = 3 -> d.day + 59 + leap_extra
          [] d.month = 4 -> d.day + 90 + leap_extra
          [] d.month = 5 -> d.day + 120 + leap_extra
          [] d.month = 6 -> d.day + 151 + leap_extra
          [] d.month = 7 -> d.day + 181 + leap_extra
          [] d.month = 8 -> d.day + 212 + leap_extra
          [] d.month = 9 -> d.day + 243 + leap_extra
          [] d.month = 10 -> d.day + 273 + leap_extra
          [] d.month = 11 -> d.day + 304 + leap_extra
          [] OTHER -> d.day + 334 + leap_extra

\* Date::timestamp, an i64
Date_timestamp(d) ==
    LET days == d.year * 365 + (ordinal_day(d) - 1) + intervening_leap_years(d.year)
    IN  WAdd(WMulSmall(W(days), 86400), UNIX_0000)

\* the loop with every year taken as 365 days
RECURSIVE year_loop_common_years(_, _, _)
year_loop_common_years(year, ord, leap_year) ==
    IF ord >= 1 THEN [year |-> year, ord |-> ord, leap_year |-> leap_year, overflow |-> FALSE]
    ELSE IF year = 0 THEN [year |-> year, ord |-> ord, leap_year |-> leap_year, overflow |-> TRUE]
    ELSE year_loop_common_years(year - 1, AsI16(ord + 365), is_leap_year(year - 1))

\* the `while ordinal_day < 1` loop of Date::from_timestamp_calc; the u16
\* subtraction `year -= 1` at year 0 is an arithmetic overflow
RECURSIVE year_loop(_, _, _)
year_loop(year, ord, leap_year) ==
    IF ord >= 1 THEN [year |-> year, ord |-> ord, leap_year |-> leap_year, overflow |-> FALSE]
    ELSE IF year = 0 THEN [year |-> year, ord |-> ord, leap_year |-> leap_year, overflow |-> TRUE]
    ELSE LET y == year - 1
             l == is_leap_year(y)
         IN  year_loop(y, AsI16(ord + (IF l THEN 366 ELSE 365)), l)

\* Date::from_timestamp_calc: Ok((Date, seconds of the day))
from_timestamp_calc(timestamp_second) ==
    IF WLt(timestamp_second, UNIX_0000) THEN Err("DateTooSmall")
    ELSE IF WLt(UNIX_9999, timestamp_second) THEN Err("DateTooLarge")
    ELSE LET seconds_diff == WSub(timestamp_second, UNIX_0000)
             delta_days == WToInt(WDivTrunc(seconds_diff, 86400))
             delta_years == delta_days \div 365
             leap_years == intervening_leap_years(delta_years)
             ord0 == AsI16((delta_days % 365) - leap_years + 1)
             r == year_loop(delta_years % 65536, ord0, is_leap_year(delta_years % 65536))
             md == IF r.leap_year THEN leap_year_month_day(r.ord)
                   ELSE common_year_month_day(r.ord)
         IN  IF r.overflow THEN Err("panic")
             ELSE Ok([date |-> Date(r.year, md[1], md[2]),
                      rem |-> WRemEuclid(timestamp_second, 86400)])

(***************************************************************************)
(* util.rs                                                                 *)
(***************************************************************************)
\* the millisecond split shared by both functions of util.rs
ms_split(timestamp) ==
    LET seconds == WDivTrunc(timestamp, 1000)
        microseconds == WRemTrunc(timestamp, 1000) * 1000
    IN  IF microseconds < 0
        THEN [s |-> WSub(seconds, W(1)), us |-> microseconds + 1000000]
        ELSE [s |-> seconds, us |-> microseconds]

\* timestamp_watershed with the watershed itself read as milliseconds
timestamp_watershed_strict(timestamp) ==
    LET ts_abs == checked_abs(timestamp)
    IN  IF ~ts_abs.some THEN Err("DateTooSmall")
        ELSE IF WLt(ts_abs.v, MS_WATERSHED) THEN Ok([s |-> timestamp, us |-> 0])
        ELSE Ok(ms_split(timestamp))

timestamp_watershed(timestamp) ==
    LET ts_abs == checked_abs(timestamp)
    IN  IF ~ts_abs.some THEN Err("DateTooSmall")
        ELSE IF WLe(ts_abs.v, MS_WATERSHED) THEN Ok([s |-> timestamp, us |-> 0])
        ELSE Ok(ms_split(timestamp))

\* timestamp_to_seconds_micros with a Millisecond branch that rounds the
\* seconds towards zero
timestamp_to_seconds_micros_towards_zero(timestamp, unit) ==
    CASE unit = "Second" -> Ok([s |-> timestamp, us |-> 0])
      [] unit = "Millisecond" ->
             Ok([s |-> WDivTrunc(timestamp, 1000), us |-> ms_split(timestamp).us])
      [] OTHER -> timestamp_watershed(timestamp)

timestamp_to_seconds_micros(timestamp, unit) ==
    CASE unit = "Second" -> Ok([s |-> timestamp, us |-> 0])
      [] unit = "Millisecond" -> Ok(ms_split(timestamp))
      [] OTHER -> timestamp_watershed(timestamp)

\* Date::from_timestamp(timestamp, require_exact, config)
Date_from_timestamp(timestamp, require_exact, unit) ==
    LET su == timestamp_to_seconds_micros(timestamp, unit)
    IN  IF ~su.ok THEN su
        ELSE LET c == from_timestamp_calc(su.v.s)
             IN  IF ~c.ok THEN c
                 ELSE IF require_exact /\ (c.v.rem # 0 \/ su.v.us # 0)
                 THEN Err("DateNotExact")
                 ELSE Ok(c.v.date)

(***************************************************************************)
(* Byte strings: sequences of byte values; index i of the code is i + 1    *)
(***************************************************************************)
\* bytes.get(i): the byte, or -1 for None
Get(bytes, i) == IF i >= 0 /\ i < Len(bytes) THEN bytes[i + 1] ELSE -1

\* (b'0'..=b'9').contains(&c)
is_ascii_digit(c) == c \in 48..57

(***************************************************************************)
(* numbers.rs                                                              *)
(***************************************************************************)
\* the `for digit in digits` loop of int_parse_bytes, from index i on
RECURSIVE int_digits(_, _, _)
int_digits(s, i, result) ==
    IF i >= Len(s) THEN Some(result)
    ELSE LET m == WMulSmall(result, 10)
         IN  IF WLt(I64_MAX, m) THEN Option_None
             ELSE IF Get(s, i) = 48 THEN int_digits(s, i + 1, m)
             ELSE IF Get(s, i) \in 49..57
             THEN LET a == checked_add(m, W(Get(s, i) - 48))
                  IN  IF ~a.some THEN Option_None ELSE int_digits(s, i + 1, a.v)
             ELSE Option_None

\* int_parse_bytes: Option<i64>
int_parse_bytes(s) ==
    LET neg == Get(s, 0) = 45 /\ Len(s) >= 2
        first == IF (Get(s, 0) = 45 \/ Get(s, 0) = 43) /\ Len(s) >= 2 THEN 1 ELSE 0
    IN  IF Len(s) = 0 THEN Option_None
        ELSE IF ~is_ascii_digit(Get(s, first)) THEN Option_None
        ELSE LET r == int_digits(s, first + 1, W(Get(s, first) - 48))
             IN  IF ~r.some THEN Option_None
                 ELSE IF neg THEN Some(WNeg(r.v)) ELSE r

(***************************************************************************)
(* date.rs: parsing                                                        *)
(***************************************************************************)
\* Date::parse_bytes_partial
parse_bytes_partial(bytes) ==
    IF Len(bytes) < 10 THEN Err("TooShort")
    ELSE IF \E i \in 0..3 : ~is_ascii_digit(Get(bytes, i)) THEN Err("InvalidCharYear")
    ELSE IF Get(bytes, 4) # 45 THEN Err("InvalidCharDateSep")
    ELSE IF \E i \in 5..6 : ~is_ascii_digit(Get(bytes, i)) THEN Err("InvalidCharMonth")
    ELSE IF Get(bytes, 7) # 45 THEN Err("InvalidCharDateSep")
    ELSE IF \E i \in 8..9 : ~is_ascii_digit(Get(bytes, i)) THEN Err("InvalidCharDay")
    ELSE LET year == (Get(bytes, 0) - 48) * 1000 + (Get(bytes, 1) - 48) * 100
                     + (Get(bytes, 2) - 48) * 10 + (Get(bytes, 3) - 48)
             month == (Get(bytes, 5) - 48) * 10 + (Get(bytes, 6) - 48)
             day == (Get(bytes, 8) - 48) * 10 + (Get(bytes, 9) - 48)
             max_days ==
                 IF month \in {1, 3, 5, 7, 8, 10, 12} THEN 31
                 ELSE IF month \in {4, 6, 9, 11} THEN 30
                 ELSE IF month = 2
                 THEN (IF year % 4 = 0 /\ (year % 100 # 0 \/ year % 400 = 0) THEN 29 ELSE 28)
                 ELSE 0
         IN  IF max_days = 0 THEN Err("OutOfRangeMonth")
             ELSE IF day < 1 \/ day > max_days THEN Err("OutOfRangeDay")
             ELSE Ok(Date(year, month, day))

\* parse_bytes_rfc3339 without the check for bytes after the date
parse_bytes_rfc3339_any_tail(bytes) == parse_bytes_partial(bytes)

\* Date::parse_bytes_rfc3339
parse_bytes_rfc3339(bytes) ==
    LET d == parse_bytes_partial(bytes)
    IN  IF ~d.ok THEN d
        ELSE IF Len(bytes) > 10 THEN Err("ExtraCharacters")
        ELSE d

\* Date::parse_bytes_with_config
Date_parse_bytes_with_config(bytes, unit) ==
    LET d == parse_bytes_rfc3339(bytes)
    IN  IF d.ok THEN d
        ELSE LET int == int_parse_bytes(bytes)
             IN  IF int.some THEN Date_from_timestamp(int.v, TRUE, unit) ELSE d

(***************************************************************************)
(* time.rs                                                                 *)
(***************************************************************************)
\* TimeConfig
TimeConfig(overflow, unix_timestamp_offset) ==
    [overflow |-> overflow, unix_timestamp_offset |-> unix_timestamp_offset]

\* TimeConfigBuilder::new().build()
DefaultTimeConfig == TimeConfig("Error", Option_None)

Time(hour, minute, second, microsecond, tz_offset) ==
    [hour |-> hour, minute |-> minute, second |-> second,
     microsecond |-> microsecond, tz_offset |-> tz_offset]

\* w / 1_000_000 and w % 1_000_000 for a u32 held as limbs
WDivMillion(w) == WDivTrunc(WDivTrunc(w, 1000), 1000)

WRemMillion(w) == WRemTrunc(WDivTrunc(w, 1000), 1000) * 1000 + WRemTrunc(w, 1000)

\* Time::from_timestamp_with_config; both arguments are u32, held as limbs
Time_from_timestamp_with_config(timestamp_second, timestamp_microsecond, config) ==
    LET carry == ~WLt(timestamp_microsecond, W(1000000))
        sum == WAdd(timestamp_second, WDivMillion(timestamp_microsecond))
        second == IF carry THEN sum ELSE timestamp_second
        microsecond == IF carry THEN WRemMillion(timestamp_microsecond)
                       ELSE WToInt(timestamp_microsecond)
    IN  IF carry /\ WLt(U32_MAX, sum) THEN Err("TimeTooLarge")
        ELSE IF ~WLt(second, W(86400)) THEN Err("TimeTooLarge")
        ELSE LET sec == WToInt(second)
             IN  Ok(Time(AsU8(sec \div 3600), AsU8((sec % 3600) \div 60), AsU8(sec % 60),
                         microsecond, config.unix_timestamp_offset))

\* Time::from_timestamp
Time_from_timestamp(timestamp_second, timestamp_microsecond) ==
    Time_from_timestamp_with_config(timestamp_second, timestamp_microsecond, DefaultTimeConfig)

\* the fraction loop of PureTime::parse: i digits read so far, from byte `start` on
RECURSIVE fraction_loop(_, _, _, _, _)
fraction_loop(bytes, start, i, microsecond, config) ==
    IF ~is_ascii_digit(Get(bytes, start + i))
    THEN Ok([i |-> i, microsecond |-> microsecond])
    ELSE LET us == IF i < 6 THEN microsecond * 10 + (Get(bytes, start + i) - 48)
                   ELSE microsecond
         IN  IF i + 1 > 6 /\ config.overflow = "Error" THEN Err("SecondFractionTooLong")
             ELSE fraction_loop(bytes, start, i + 1, us, config)

PureTime(hour, minute, second, microsecond, position) ==
    [hour |-> hour, minute |-> minute, second |-> second,
     microsecond |-> microsecond, position |-> position]

\* PureTime::parse with a short fraction not padded to six digits
PureTime_parse_fraction_not_padded(bytes, offset, config) ==
    IF offset > Len(bytes) THEN Err("panic")
    ELSE IF Len(bytes) - offset < 5 THEN Err("TooShort")
    ELSE IF \E i \in 0..1 : ~is_ascii_digit(Get(bytes, offset + i)) THEN Err("InvalidCharHour")
    ELSE IF Get(bytes, offset + 2) # 58 THEN Err("InvalidCharTimeSep")
    ELSE IF \E i \in 3..4 : ~is_ascii_digit(Get(bytes, offset + i)) THEN Err("InvalidCharMinute")
    ELSE LET hour == (Get(bytes, offset) - 48) * 10 + (Get(bytes, offset + 1) - 48)
             minute == (Get(bytes, offset + 3) - 48) * 10 + (Get(bytes, offset + 4) - 48)
         IN  IF hour > 23 THEN Err("OutOfRangeHour")
             ELSE IF minute > 59 THEN Err("OutOfRangeMinute")
             ELSE IF Get(bytes, offset + 5) # 58
             THEN Ok(PureTime(hour, minute, 0, 0, offset + 5))
             ELSE IF \E i \in 6..7 : ~is_ascii_digit(Get(bytes, offset + i))
             THEN Err("InvalidCharSecond")
             ELSE LET second == (Get(bytes, offset + 6) - 48) * 10
                                + (Get(bytes, offset + 7) - 48)
                      frac_sep == Get(bytes, offset + 8)
                  IN  IF second > 59 THEN Err("OutOfRangeSecond")
                      ELSE IF frac_sep # 46 /\ frac_sep # 44
                      THEN Ok(PureTime(hour, minute, second, 0, offset + 8))
                      ELSE LET f == fraction_loop(bytes, offset + 9, 0, 0, config)
                           IN  IF ~f.ok THEN f
                               ELSE IF f.v.i = 0 THEN Err("SecondFractionMissing")
                               ELSE LET pad == 1
                                    IN  Ok(PureTime(hour, minute, second,
                                                    f.v.microsecond * pad,
                                                    offset + 9 + f.v.i))

\* PureTime::parse; `bytes.len() - offset` underflows when offset > len
PureTime_parse(bytes, offset, config) ==
    IF offset > Len(bytes) THEN Err("panic")
    ELSE IF Len(bytes) - offset < 5 THEN Err("TooShort")
    ELSE IF \E i \in 0..1 : ~is_ascii_digit(Get(bytes, offset + i)) THEN Err("InvalidCharHour")
    ELSE IF Get(bytes, offset + 2) # 58 THEN Err("InvalidCharTimeSep")
    ELSE IF \E i \in 3..4 : ~is_ascii_digit(Get(bytes, offset + i)) THEN Err("InvalidCharMinute")
    ELSE LET hour == (Get(bytes, offset) - 48) * 10 + (Get(bytes, offset + 1) - 48)
             minute == (Get(bytes, offset + 3) - 48) * 10 + (Get(bytes, offset + 4) - 48)
         IN  IF hour > 23 THEN Err("OutOfRangeHour")
             ELSE IF minute > 59 THEN Err("OutOfRangeMinute")
             ELSE IF Get(bytes, offset + 5) # 58
             THEN Ok(PureTime(hour, minute, 0, 0, offset + 5))
             ELSE IF \E i \in 6..7 : ~is_ascii_digit(Get(bytes, offset + i))
             THEN Err("InvalidCharSecond")
             ELSE LET second == (Get(bytes, offset + 6) - 48) * 10
                                + (Get(bytes, offset + 7) - 48)
                      frac_sep == Get(bytes, offset + 8)
                  IN  IF second > 59 THEN Err("OutOfRangeSecond")
                      ELSE IF frac_sep # 46 /\ frac_sep # 44
                      THEN Ok(PureTime(hour, minute, second, 0, offset + 8))
                      ELSE LET f == fraction_loop(bytes, offset + 9, 0, 0, config)
                           IN  IF ~f.ok THEN f
                               ELSE IF f.v.i = 0 THEN Err("SecondFractionMissing")
                               ELSE LET pad == IF f.v.i < 6 THEN 10 ^ (6 - f.v.i) ELSE 1
                                    IN  Ok(PureTime(hour, minute, second,
                                                    f.v.microsecond * pad,
                                                    offset + 9 + f.v.i))

\* the timezone suffix with an offset of a whole day allowed
parse_tz_whole_day_allowed(bytes, start) ==
    LET next_char == Get(bytes, start)
        p1 == start + 1
    IN  IF next_char = -1 THEN Ok([tz_offset |-> Option_None, position |-> start])
        ELSE IF next_char = 90 \/ next_char = 122
        THEN Ok([tz_offset |-> Some(0), position |-> p1])
        ELSE IF next_char \notin {43, 45, 226} THEN Err("InvalidCharTzSign")
        ELSE IF next_char = 226 /\ (Get(bytes, p1) # 136 \/ Get(bytes, p1 + 1) # 146)
        THEN Err("InvalidCharTzSign")
        ELSE LET sign == IF next_char = 43 THEN 1 ELSE -1
                 p2 == IF next_char = 226 THEN p1 + 2 ELSE p1
                 c == Get(bytes, p2 + 2)
                 p3 == IF c = 58 THEN p2 + 3 ELSE p2 + 2
             IN  IF \E i \in 0..1 : ~is_ascii_digit(Get(bytes, p2 + i))
                 THEN Err("InvalidCharTzHour")
                 ELSE IF c # 58 /\ ~is_ascii_digit(c) THEN Err("InvalidCharTzMinute")
                 ELSE IF \E i \in 0..1 : ~is_ascii_digit(Get(bytes, p3 + i))
                 THEN Err("InvalidCharTzMinute")
                 ELSE LET h1 == Get(bytes, p2) - 48
                          h2 == Get(bytes, p2 + 1) - 48
                          m1 == Get(bytes, p3) - 48
                          m2 == Get(bytes, p3 + 1) - 48
                          minute_seconds == m1 * 600 + m2 * 60
                          offset_val == sign * (h1 * 36000 + h2 * 3600 + minute_seconds)
                      IN  IF minute_seconds >= 3600 THEN Err("OutOfRangeTzMinute")
                          ELSE IF offset_val > 24 * 3600 \/ -offset_val > 24 * 3600
                          THEN Err("OutOfRangeTz")
                          ELSE Ok([tz_offset |-> Some(offset_val), position |-> p3 + 2])

\* the timezone suffix of Time::parse_bytes_offset, from byte `start` on:
\* Ok of the offset and the position after it
parse_tz(bytes, start) ==
    LET next_char == Get(bytes, start)
        p1 == start + 1
    IN  IF next_char = -1 THEN Ok([tz_offset |-> Option_None, position |-> start])
        ELSE IF next_char = 90 \/ next_char = 122
        THEN Ok([tz_offset |-> Some(0), position |-> p1])
        ELSE IF next_char \notin {43, 45, 226} THEN Err("InvalidCharTzSign")
        ELSE IF next_char = 226 /\ (Get(bytes, p1) # 136 \/ Get(bytes, p1 + 1) # 146)
        THEN Err("InvalidCharTzSign")
        ELSE LET sign == IF next_char = 43 THEN 1 ELSE -1
                 p2 == IF next_char = 226 THEN p1 + 2 ELSE p1
                 c == Get(bytes, p2 + 2)
                 p3 == IF c = 58 THEN p2 + 3 ELSE p2 + 2
             IN  IF \E i \in 0..1 : ~is_ascii_digit(Get(bytes, p2 + i))
                 THEN Err("InvalidCharTzHour")
                 ELSE IF c # 58 /\ ~is_ascii_digit(c) THEN Err("InvalidCharTzMinute")
                 ELSE IF \E i \in 0..1 : ~is_ascii_digit(Get(bytes, p3 + i))
                 THEN Err("InvalidCharTzMinute")
                 ELSE LET h1 == Get(bytes, p2) - 48
                          h2 == Get(bytes, p2 + 1) - 48
                          m1 == Get(bytes, p3) - 48
                          m2 == Get(bytes, p3 + 1) - 48
                          minute_seconds == m1 * 600 + m2 * 60
                          offset_val == sign * (h1 * 36000 + h2 * 3600 + minute_seconds)
                      IN  IF minute_seconds >= 3600 THEN Err("OutOfRangeTzMinute")
                          ELSE IF offset_val >= 24 * 3600 \/ -offset_val >= 24 * 3600
                          THEN Err("OutOfRangeTz")
                          ELSE Ok([tz_offset |-> Some(offset_val), position |-> p3 + 2])

\* Time::parse_bytes_offset
Time_parse_bytes_offset(bytes, offset, config) ==
    LET pure_time == PureTime_parse(bytes, offset, config)
    IN  IF ~pure_time.ok THEN pure_time
        ELSE LET tz == parse_tz(bytes, pure_time.v.position)
             IN  IF ~tz.ok THEN tz
                 ELSE IF Len(bytes) > tz.v.position THEN Err("ExtraCharacters")
                 ELSE Ok(Time(pure_time.v.hour, pure_time.v.minute, pure_time.v.second,
                              pure_time.v.microsecond, tz.v.tz_offset))

\* Time::parse_bytes_with_config
Time_parse_bytes_with_config(bytes, config) == Time_parse_bytes_offset(bytes, 0, config)

\* Time::total_seconds
total_seconds(t) == t.hour * 3600 + t.minute * 60 + t.second

\* i32::abs(x) >= 24 * 3600
tz_out_of_range(x) == x >= 24 * 3600 \/ -x >= 24 * 3600

\* Time::with_timezone_offset
Time_with_timezone_offset(t, tz_offset) ==
    IF tz_offset.some /\ tz_out_of_range(tz_offset.v) THEN Err("OutOfRangeTz")
    ELSE Ok([t EXCEPT !.tz_offset = tz_offset])

\* u32::saturating_add_signed for operands below 2^30
saturating_add_signed(a, b) == IF a + b < 0 THEN 0 ELSE a + b

\* Time::in_timezone
Time_in_timezone(t, tz_offset) ==
    IF tz_out_of_range(tz_offset) THEN Err("OutOfRangeTz")
    ELSE IF t.tz_offset.some
    THEN LET offset == tz_offset - t.tz_offset.v
             seconds == saturating_add_signed(total_seconds(t), offset)
             time == Time_from_timestamp(W(seconds), W(t.microsecond))
         IN  IF ~time.ok THEN time
             ELSE Ok([time.v EXCEPT !.tz_offset = Some(offset)])
    ELSE Err("TzRequired")

(***************************************************************************)
(* datetime.rs                                                             *)
(***************************************************************************)
DateTime(date, time) == [date |-> date, time |-> time]

\* DateTime::parse_bytes_rfc3339_with_config without the test of the
\* separator at index 10
DateTime_parse_bytes_rfc3339_unseparated(bytes, config) ==
    LET date == parse_bytes_partial(bytes)
    IN  IF ~date.ok THEN date
        ELSE LET time == Time_parse_bytes_offset(bytes, 11, config)
             IN  IF ~time.ok THEN time ELSE Ok(DateTime(date.v, time.v))

\* DateTime::parse_bytes_rfc3339_with_config
DateTime_parse_bytes_rfc3339_with_config(bytes, config) ==
    LET date == parse_bytes_partial(bytes)
        sep == Get(bytes, 10)
    IN  IF ~date.ok THEN date
        ELSE IF sep \notin {84, 116, 32, 95} THEN Err("InvalidCharDateTimeSep")
        ELSE LET time == Time_parse_bytes_offset(bytes, 11, config)
             IN  IF ~time.ok THEN time ELSE Ok(DateTime(date.v, time.v))

\* In the definitions below a value bound by `\in {e}` is a `let` of the
\* code: e is evaluated once, where the code evaluates it.

\* the tail of DateTime::from_timestamp_with_config: the date and the time of
\* a second count
DateTime_from_second(second, total_microsecond, config) ==
    CHOOSE r \in
        {IF ~c.ok THEN c
         ELSE LET time == Time_from_timestamp_with_config(
                              W(c.v.rem), total_microsecond, config)
              IN  IF ~time.ok THEN time ELSE Ok(DateTime(c.v.date, time.v)) :
            c \in {from_timestamp_calc(second)}} : TRUE

\* the middle of DateTime::from_timestamp_with_config: the microseconds of the
\* watershed added to the argument's, and a full second carried over
DateTime_from_watershed(ws, timestamp_microsecond, config) ==
    CHOOSE r \in
        {LET carry == ~WLt(total, W(1000000))
             second == IF carry THEN checked_add(ws.s, WDivMillion(total))
                       ELSE Some(ws.s)
             total_microsecond == IF carry THEN W(WRemMillion(total)) ELSE total
         IN  IF WLt(U32_MAX, total) \/ ~second.some THEN Err("TimeTooLarge")
             ELSE DateTime_from_second(second.v, total_microsecond, config) :
            total \in {WAdd(timestamp_microsecond, W(ws.us))}} : TRUE

\* DateTime::from_timestamp_with_config; timestamp_microsecond is a u32 held as limbs
DateTime_from_timestamp_with_config(timestamp, timestamp_microsecond, config) ==
    CHOOSE r \in
        {IF ~ws.ok THEN ws
         ELSE DateTime_from_watershed(ws.v, timestamp_microsecond, config) :
            ws \in {timestamp_watershed(timestamp)}} : TRUE

\* DateTime::from_timestamp
DateTime_from_timestamp(timestamp, timestamp_microsecond) ==
    DateTime_from_timestamp_with_config(timestamp, timestamp_microsecond, DefaultTimeConfig)

\* DateTime::timestamp, an i64
DateTime_timestamp(dt) == WAdd(Date_timestamp(dt.date), W(total_seconds(dt.time)))

\* DateTime::timestamp_tz, an i64
DateTime_timestamp_tz(dt) ==
    IF dt.time.tz_offset.some
    THEN WSub(DateTime_timestamp(dt), W(dt.time.tz_offset.v))
    ELSE DateTime_timestamp(dt)

\* DateTime::with_timezone_offset
DateTime_with_timezone_offset(dt, tz_offset) ==
    LET time == Time_with_timezone_offset(dt.time, tz_offset)
    IN  IF ~time.ok THEN time ELSE Ok(DateTime(dt.date, time.v))

\* DateTime::in_timezone
DateTime_in_timezone(dt, tz_offset) ==
    IF tz_out_of_range(tz_offset) THEN Err("OutOfRangeTz")
    ELSE IF dt.time.tz_offset.some
    THEN CHOOSE r \in
             {IF ~new_dt.ok THEN new_dt
              ELSE Ok([new_dt.v EXCEPT !.time.tz_offset = Some(tz_offset)]) :
                 new_dt \in {DateTime_from_timestamp(
                                WAdd(DateTime_timestamp(dt),
                                     W(tz_offset - dt.time.tz_offset.v)),
                                W(dt.time.microsecond))}} : TRUE
    ELSE Err("TzRequired")

(***************************************************************************)
(* Bounds and the argument sets the actions draw from                      *)
(***************************************************************************)
\* days taken on each side of every anchor day
DayWindow == 2

\* evenly spaced days taken across 0000-01-01 .. 9999-12-31
SweepPoints == 120

\* years taken on each side of every anchor year, for date texts
YearWindow == 1

AnchorYears == {0, 4, 100, 400, 1336, 1600, 1900, 1970, 2000, 2023, 2603, 9999}

\* the day index (0000-01-01 is day 0) of 9999-12-31
LastDay == WToInt(WDivTrunc(WSub(UNIX_9999, UNIX_0000), 86400))

\* the day index of 1 January of year y
JanFirst(y) == y * 365 + intervening_leap_years(y)

\* day indexes around every new year and every end of February of the anchor
\* years, a sweep of the whole range, and the days just outside the range
DaySamples ==
    UNION {{JanFirst(y) + k, JanFirst(y) + 59 + k, JanFirst(y + 1) + k} :
              <<y, k>> \in AnchorYears \X (-DayWindow..DayWindow)}
    \cup {k * (LastDay \div SweepPoints) : k \in 0..SweepPoints}
    \cup {-2, -1, LastDay, LastDay + 1, LastDay + 2}

SodSamples == {0, 40000, 86399}

\* second counts: the sampled days at the sampled seconds of the day
SecondSamples ==
    {WAdd(UNIX_0000, WAdd(WMulSmall(W(d), 86400), W(sod))) :
        <<d, sod>> \in DaySamples \X SodSamples}

MsSamples == {0, 1, 999}

\* the same instants as millisecond counts
MilliSamples ==
    {WAdd(WMulSmall(sec, 1000), W(ms)) : <<sec, ms>> \in SecondSamples \X MsSamples}

\* i64 values at the edges of every range the code tests
EdgeSamples ==
    {I64_MIN, WAdd(I64_MIN, W(1)), I64_MAX, W(0), W(-1), W(1)}
    \cup {WAdd(x, W(k)) : <<x, k>> \in
             {MS_WATERSHED, WNeg(MS_WATERSHED), UNIX_0000, UNIX_9999,
              WMulSmall(UNIX_0000, 1000), WMulSmall(UNIX_9999, 1000),
              WThousands(-11676096, 0), WMulSmall(WThousands(-30610224, 0), 1000)} \X (-2..2)}

TimestampSamples == SecondSamples \cup MilliSamples \cup EdgeSamples

TimestampUnits == {"Second", "Millisecond", "Infer"}

(***************************************************************************)
(* Date texts                                                              *)
(***************************************************************************)
\* the ASCII digits of a tuple of digit values
Digits(ds) == [i \in 1..Len(ds) |-> 48 + ds[i]]

Fmt2(n) == <<48 + ((n \div 10) % 10), 48 + (n % 10)>>

Fmt4(n) == <<48 + ((n \div 1000) % 10), 48 + ((n \div 100) % 10)>> \o Fmt2(n % 100)

\* YYYY-MM-DD of three numbers, valid date or not
DateText(y, m, d) == Fmt4(y) \o <<45>> \o Fmt2(m) \o <<45>> \o Fmt2(d)

TextYears == UNION {(y - YearWindow)..(y + YearWindow) : y \in AnchorYears} \cap 0..9999

TextMonths == 0..13 \cup {99}

TextDays == {0, 1, 2, 15, 99} \cup 27..32

\* texts that are mutated: a valid date, a leap day, a bad month, a bad day
BaseTexts ==
    {DateText(2020, 4, 1), DateText(2000, 2, 29), DateText(2020, 13, 1),
     DateText(2020, 4, 31)}

\* bytes put in place of a byte of a base text: x - : 0 9 space / and NUL
MutationBytes == {120, 45, 58, 48, 57, 32, 47, 0}

\* bytes appended to a text
Suffixes == {<<32>>, <<120, 120, 120>>, <<84>>, <<48>>, <<45>>}

\* integers as text, for the permissive parser
IntTexts ==
    {Digits(<<1, 5, 7, 7, 8, 3, 6, 8, 0, 0>>), Digits(<<1, 5, 7, 7, 8, 3, 6, 8, 0, 1>>),
     Digits(<<1, 5, 7, 7, 8, 3, 6, 8, 0, 0, 0, 0, 0>>),
     Digits(<<1, 5, 7, 7, 8, 3, 6, 8, 0, 0, 0, 0, 1>>),
     Digits(<<1, 9, 9, 9, 9, 8, 7, 2, 0, 0, 0>>), Digits(<<2, 0, 0, 4, 4, 8, 0, 0, 0, 0, 0>>),
     <<45>> \o Digits(<<2, 0, 0, 0, 0, 0, 0, 0, 0, 0, 0>>),
     <<>>, <<45>>, <<43>>, Digits(<<0>>), <<43, 48>>, <<45, 48>>, <<45, 45, 49>>,
     Digits(<<8, 6, 4, 0, 0>>), <<49, 50, 120>>, <<49, 46, 53>>,
     Digits(<<2, 5, 3, 4, 0, 2, 2, 1, 4, 4, 0, 0, 0, 0, 0>>),
     Digits(<<2, 5, 3, 4, 0, 2, 3, 0, 0, 8, 0, 0, 0, 0, 0>>),
     <<45>> \o Digits(<<6, 2, 1, 6, 7, 2, 1, 9, 2, 0, 0, 0, 0, 0>>),
     <<45>> \o Digits(<<6, 2, 1, 6, 7, 2, 1, 9, 2, 0, 0, 0, 0, 1>>),
     <<45>> \o Digits(<<6, 2, 1, 6, 7, 2, 1, 9, 2, 8, 6, 4, 0, 0, 0, 0, 0>>),
     Digits(<<9, 2, 2, 3, 3, 7, 2, 0, 3, 6, 8, 5, 4, 7, 7, 5, 8, 0, 7>>),
     Digits(<<9, 2, 2, 3, 3, 7, 2, 0, 3, 6, 8, 5, 4, 7, 7, 5, 8, 0, 8>>),
     <<45>> \o Digits(<<9, 2, 2, 3, 3, 7, 2, 0, 3, 6, 8, 5, 4, 7, 7, 5, 8, 0, 8>>)}

DateTexts ==
    {DateText(y, m, d) : <<y, m, d>> \in TextYears \X TextMonths \X TextDays}
    \cup {[b EXCEPT ![i] = c] : <<b, i, c>> \in BaseTexts \X (1..10) \X MutationBytes}
    \cup {SubSeq(b, 1, n) : <<b, n>> \in BaseTexts \X (0..9)}
    \cup {b \o x : <<b, x>> \in BaseTexts \X Suffixes}

(***************************************************************************)
(* Calendar and timestamp entry points: one call per behaviour             *)
(***************************************************************************)
Start == op = "start"

Init == op = "start" /\ inp = [none |-> TRUE] /\ out = Err("start")

\* Date::parse_bytes_rfc3339(bytes)
ParseDateRfc3339 ==
    /\ Start
    /\ \E b \in DateTexts \cup IntTexts :
           /\ op' = "Date::parse_bytes_rfc3339"
           /\ inp' = [bytes |-> b]
           /\ out' = parse_bytes_rfc3339(b)

\* Date::parse_bytes_with_config(bytes, config)
ParseDate ==
    /\ Start
    /\ \E b \in DateTexts \cup IntTexts, u \in TimestampUnits :
           /\ op' = "Date::parse_bytes_with_config"
           /\ inp' = [bytes |-> b, unit |-> u]
           /\ out' = Date_parse_bytes_with_config(b, u)

\* Date::from_timestamp(timestamp, require_exact, config)
DateFromTimestamp ==
    /\ Start
    /\ \E t \in TimestampSamples, x \in BOOLEAN, u \in TimestampUnits :
           /\ op' = "Date::from_timestamp"
           /\ inp' = [timestamp |-> t, require_exact |-> x, unit |-> u]
           /\ out' = Date_from_timestamp(t, x, u)

\* d.timestamp() of a Date an earlier call returned
DateTimestamp ==
    /\ op \in {"Date::parse_bytes_rfc3339", "Date::parse_bytes_with_config",
               "Date::from_timestamp"}
    /\ out.ok
    /\ op' = "Date::timestamp"
    /\ inp' = [date |-> out.v]
    /\ out' = Ok(Date_timestamp(out.v))

\* DateTime::from_timestamp(timestamp, timestamp_microsecond)
DateTimeFromTimestamp ==
    /\ Start
    /\ \E t \in TimestampSamples, us \in {W(0), W(999999), W(1000000), U32_MAX} :
           /\ op' = "DateTime::from_timestamp"
           /\ inp' = [timestamp |-> t, timestamp_microsecond |-> us]
           /\ out' = DateTime_from_timestamp(t, us)

\* util::timestamp_watershed(timestamp)
Watershed ==
    /\ Start
    /\ \E t \in TimestampSamples :
           /\ op' = "timestamp_watershed"
           /\ inp' = [timestamp |-> t]
           /\ out' = timestamp_watershed(t)

Next ==
    \/ ParseDateRfc3339
    \/ ParseDate
    \/ DateFromTimestamp
    \/ DateTimestamp
    \/ DateTimeFromTimestamp
    \/ Watershed

Spec == Init /\ [][Next]_vars

(***************************************************************************)
(* The proleptic Gregorian calendar, stated independently of the code      *)
(***************************************************************************)
GregorianLeap(y) == y % 4 = 0 /\ (y % 100 # 0 \/ y % 400 = 0)

DaysInMonth(y, m) ==
    IF m = 2 THEN (IF GregorianLeap(y) THEN 29 ELSE 28)
    ELSE IF m \in {4, 6, 9, 11} THEN 30
    ELSE 31

ValidDate(d) ==
    /\ d.year \in 0..9999
    /\ d.month \in 1..12
    /\ d.day >= 1
    /\ d.day <= DaysInMonth(d.year, d.month)

\* leap years among 0 .. y-1: 97 in every 400 years, the rest counted
LeapsBefore(y) ==
    97 * (y \div 400) + Cardinality({k \in 0..((y % 400) - 1) : GregorianLeap(k)})

RECURSIVE DaysBeforeMonth(_, _)
DaysBeforeMonth(y, m) ==
    IF m = 1 THEN 0 ELSE DaysBeforeMonth(y, m - 1) + DaysInMonth(y, m - 1)

\* days from 0000-01-01 to d
CivilDay(d) == 365 * d.year + LeapsBefore(d.year) + DaysBeforeMonth(d.year, d.month) + d.day - 1

\* the calendar day after d
NextDay(d) ==
    IF d.day < DaysInMonth(d.year, d.month) THEN Date(d.year, d.month, d.day + 1)
    ELSE IF d.month < 12 THEN Date(d.year, d.month + 1, 1)
    ELSE Date(d.year + 1, 1, 1)

ReturnsDate ==
    op \in {"Date::parse_bytes_rfc3339", "Date::parse_bytes_with_config",
            "Date::from_timestamp"}

(***************************************************************************)
(* C1: every Date a constructor returns Ok (the text parsers, the          *)
(* timestamp constructors with every unit, the date of a DateTime built    *)
(* from a timestamp) has year in 0..9999, month in 1..12 and a day between  *)
(* 1 and the length of that month under the Gregorian leap rule.           *)
(***************************************************************************)
C1_DateInvariant ==
    /\ (ReturnsDate /\ out.ok) => ValidDate(out.v)
    /\ (op = "DateTime::from_timestamp" /\ out.ok) => ValidDate(out.v.date)

\* a timestamp constructor returned 29 February
C1_Witness ==
    /\ op = "Date::from_timestamp"
    /\ out.ok
    /\ out.v.month = 2
    /\ out.v.day = 29

(***************************************************************************)
(* C2: Date::parse_bytes_rfc3339 returns Ok exactly for the 10-byte texts  *)
(* YYYY-MM-DD that name a real day, and the first defect met, reading left *)
(* to right, decides the error: TooShort under 10 bytes, a wrong separator *)
(* InvalidCharDateSep, month 00 or above 12 OutOfRangeMonth, day 00 or     *)
(* past the end of the month OutOfRangeDay, and bytes after a valid date   *)
(* ExtraCharacters.                                                        *)
(***************************************************************************)
DigitsAt(b, idx) == \A i \in idx : b[i] \in 48..57

Num2(b, i) == (b[i] - 48) * 10 + (b[i + 1] - 48)

Num4(b) == Num2(b, 1) * 100 + Num2(b, 3)

\* the first ten bytes have the shape DDDD-DD-DD
DateShape(b) ==
    /\ Len(b) >= 10
    /\ DigitsAt(b, {1, 2, 3, 4, 6, 7, 9, 10})
    /\ b[5] = 45
    /\ b[8] = 45

\* the first ten bytes name a real day
NamesDay(b) ==
    /\ DateShape(b)
    /\ Num2(b, 6) \in 1..12
    /\ Num2(b, 9) >= 1
    /\ Num2(b, 9) <= DaysInMonth(Num4(b), Num2(b, 6))

C2_Rfc3339Date ==
    op = "Date::parse_bytes_rfc3339" =>
        LET b == inp.bytes
        IN  /\ out.ok <=> (Len(b) = 10 /\ NamesDay(b))
            /\ out.ok => out.v = Date(Num4(b), Num2(b, 6), Num2(b, 9))
            /\ Len(b) < 10 => IsErr(out, "TooShort")
            /\ (Len(b) >= 10 /\ DigitsAt(b, 1..4) /\ b[5] # 45)
                   => IsErr(out, "InvalidCharDateSep")
            /\ (Len(b) >= 10 /\ DigitsAt(b, {1, 2, 3, 4, 6, 7}) /\ b[5] = 45 /\ b[8] # 45)
                   => IsErr(out, "InvalidCharDateSep")
            /\ (DateShape(b) /\ Num2(b, 6) \notin 1..12) => IsErr(out, "OutOfRangeMonth")
            /\ (DateShape(b) /\ Num2(b, 6) \in 1..12 /\ ~NamesDay(b))
                   => IsErr(out, "OutOfRangeDay")
            /\ (Len(b) > 10 /\ NamesDay(b)) => IsErr(out, "ExtraCharacters")

\* 29 February of a century year that is not a leap year was refused
C2_Witness ==
    /\ op = "Date::parse_bytes_rfc3339"
    /\ inp.bytes = DateText(1900, 2, 29)
    /\ IsErr(out, "OutOfRangeDay")

(***************************************************************************)
(* C3: Date::timestamp() is 86_400 times the number of days from           *)
(* 1970-01-01 to the date: 0 for 1970-01-01, -62_167_219_200 for           *)
(* 0000-01-01, and 86_400 more for the next calendar day whenever that day *)
(* is still in years 0000..9999.                                           *)
(***************************************************************************)
C3_DateTimestamp ==
    op = "Date::timestamp" =>
        LET d == inp.date
        IN  /\ out.v = WMulSmall(W(CivilDay(d) - CivilDay(Date(1970, 1, 1))), 86400)
            /\ d = Date(1970, 1, 1) => out.v = W(0)
            /\ d = Date(0, 1, 1) => out.v = WThousands(-62167219, -200)
            /\ NextDay(d).year <= 9999
                   => WSub(Date_timestamp(NextDay(d)), out.v) = W(86400)

\* the timestamp of a 29 February was taken
C3_Witness ==
    /\ op = "Date::timestamp"
    /\ inp.date.month = 2
    /\ inp.date.day = 29
    /\ inp.date.year = 2000

(***************************************************************************)
(* Second counts, stated independently of the code                         *)
(***************************************************************************)
\* -62_167_219_200, the first second of 0000-01-01
FirstSecond == WThousands(-62167219, -200)

\* 253_402_300_799, the last second of 9999-12-31
LastSecond == WThousands(253402300, 799)

\* 2 * 10^10
Watershed2e10 == WThousands(20000000, 0)

InRange(s) == WLe(FirstSecond, s) /\ WLe(s, LastSecond)

WithinWatershed(t) == WLe(WNeg(Watershed2e10), t) /\ WLe(t, Watershed2e10)

\* floor(t / 1000)
FloorThousand(t) ==
    IF t.neg /\ WRemTrunc(t, 1000) # 0 THEN WSub(WDivTrunc(t, 1000), W(1))
    ELSE WDivTrunc(t, 1000)

\* the second count a timestamp stands for under a unit
Resolved(t, unit) ==
    IF unit = "Second" \/ (unit = "Infer" /\ WithinWatershed(t)) THEN t
    ELSE FloorThousand(t)

\* r is s - (s mod 86_400) with the Euclidean remainder
IsDayStart(r, s) ==
    /\ WRemTrunc(r, 86400) = 0
    /\ WLe(r, s)
    /\ WLt(s, WAdd(r, W(86400)))

ResolvingCall ==
    \/ op = "Date::from_timestamp" /\ ~inp.require_exact
    \/ op = "DateTime::from_timestamp" /\ inp.timestamp_microsecond = W(0)

CallUnit == IF op = "Date::from_timestamp" THEN inp.unit ELSE "Infer"

CallDate == IF op = "Date::from_timestamp" THEN out.v ELSE out.v.date

C7_Watershed ==
    op = "timestamp_watershed" =>
        LET t == inp.timestamp
        IN  /\ t = I64_MIN => IsErr(out, "DateTooSmall")
            /\ WithinWatershed(t) => out = Ok([s |-> t, us |-> 0])
            /\ (t # I64_MIN /\ ~WithinWatershed(t))
                   => /\ out.ok
                      /\ out.v.us \in 0..999000
                      /\ out.v.us % 1000 = 0
                      /\ WAdd(WMulSmall(out.v.s, 1000), W(out.v.us \div 1000)) = t
            /\ t = WThousands(-20000000, -1)
                   => out = Ok([s |-> WThousands(-20000, -1), us |-> 999000])

\* a negative millisecond count that is not a whole second was split
C7_Witness ==
    /\ op = "timestamp_watershed"
    /\ inp.timestamp = WThousands(-20000000, -1)
    /\ out.ok
    /\ out.v.us = 999000

(***************************************************************************)
(* Texts written as strings: the bytes of a string of printable ASCII      *)
(***************************************************************************)
\* the printable characters from + (byte 43) to Z (byte 90)
PrintableLow ==
    "+,-./0123456789:;<=>?@ABCDEFGHIJKLMNOPQRSTUVWXYZ"

\* the letters from a (byte 97) to z (byte 122)
PrintableHigh ==
    "abcdefghijklmnopqrstuvwxyz"

IndexIn(table, c) == CHOOSE i \in 1..Len(table) : SubSeq(table, i, i) = c

\* the byte of a one-character string
Code(c) ==
    IF c = " " THEN 32
    ELSE IF \E i \in 1..Len(PrintableLow) : SubSeq(PrintableLow, i, i) = c
    THEN 42 + IndexIn(PrintableLow, c)
    ELSE 96 + IndexIn(PrintableHigh, c)

Ascii(s) == [i \in 1..Len(s) |-> Code(SubSeq(s, i, i))]

(***************************************************************************)
(* Time and timezone texts and arguments                                   *)
(***************************************************************************)
\* HH:MM:SS of three numbers, valid time or not
TimeText(h, m, s) == Fmt2(h) \o <<58>> \o Fmt2(m) \o <<58>> \o Fmt2(s)

ClockSamples ==
    {<<0, 0, 0>>, <<1, 0, 0>>, <<12, 0, 0>>, <<12, 13, 14>>, <<15, 0, 0>>, <<22, 30, 0>>,
     <<23, 59, 59>>, <<12, 0, 60>>}

\* second fractions: .5 .000005 ,999999 .1234567 and a bare point; ,12
\* .123456789 and a bare comma
Fractions ==
    {<<46>> \o Digits(<<5>>), <<46>> \o Digits(<<0, 0, 0, 0, 0, 5>>),
     <<44>> \o Digits(<<9, 9, 9, 9, 9, 9>>), <<46>> \o Digits(<<1, 2, 3, 4, 5, 6, 7>>),
     <<46>>, <<44>> \o Digits(<<1, 2>>), <<46>> \o Digits(<<1, 2, 3, 4, 5, 6, 7, 8, 9>>),
     <<44>>}

TimeBodies ==
    {Fmt2(hm[1]) \o <<58>> \o Fmt2(hm[2]) :
        hm \in {<<0, 0>>, <<12, 13>>, <<23, 59>>, <<24, 0>>, <<12, 60>>}}
    \cup {TimeText(c[1], c[2], c[3]) : c \in ClockSamples}
    \cup {TimeText(12, 13, 14) \o f : f \in Fractions}

\* the signs + - and U+2212
TzSigns == {<<43>>, <<45>>, <<226, 136, 146>>}

TzClock == {<<0, 0>>, <<1, 0>>, <<2, 0>>, <<5, 30>>, <<23, 0>>, <<23, 59>>, <<24, 0>>, <<0, 60>>}

\* suffixes that are not a complete timezone: a non-digit in the hour or
\* the minute, a field cut short, U+2212 cut short or with a wrong byte
TzBroken ==
    {Ascii(s) : s \in {"+x1:00", "+1x:00", "-01:x0", "+01:0x", "+01x00", "+01", "+0", "-",
                       "+01:", "+01:0"}}
    \cup {<<226>>, <<226, 136>>, <<226, 136, 50>>, <<226, 50, 146>>,
          <<226, 137, 146>> \o Ascii("01:00")}

\* bytes after the time body or after a complete timezone
TzTrailing == {Ascii(s) : s \in {" ", "xxx", "Z ", "Zx", "+01:00 ", "+0100x"}}

\* timezone suffixes: none, Z, z, a letter, signed HH:MM, +0800, -0930 and
\* +99:59
TzTexts ==
    {<<>>, <<90>>, <<122>>, <<120>>, <<43>> \o Fmt2(8) \o Fmt2(0),
     <<45>> \o Fmt2(9) \o Fmt2(30), <<43>> \o Fmt2(99) \o <<58>> \o Fmt2(59)}
    \cup {sg \o Fmt2(c[1]) \o <<58>> \o Fmt2(c[2]) : <<sg, c>> \in TzSigns \X TzClock}
    \cup TzBroken \cup TzTrailing

TimeTexts == {b \o z : <<b, z>> \in TimeBodies \X TzTexts}

\* times of the day used after a date
DateTimeBodies ==
    {TimeText(0, 0, 0), TimeText(12, 0, 0), TimeText(23, 59, 59),
     TimeText(12, 0, 0) \o <<46>> \o Digits(<<0, 0, 0, 0, 0, 5>>), TimeText(24, 0, 0)}

\* dates at the ends of the range, at the epoch, and on both sides of
\* 2603-10-11, the day second 2 * 10^10 falls on
DateTimeDates ==
    {DateText(0, 1, 1), DateText(1336, 3, 23), DateText(1970, 1, 1), DateText(2000, 1, 1),
     DateText(2603, 10, 11), DateText(3000, 1, 1), DateText(9999, 12, 31)}

DateTimeTexts ==
    {d \o <<84>> \o b \o z : <<d, b, z>> \in DateTimeDates \X DateTimeBodies \X TzTexts}
    \cup {DateText(2000, 1, 1) \o sep \o TimeText(12, 0, 0) \o <<90>> :
             sep \in {<<116>>, <<32>>, <<95>>, <<120>>, <<>>}}

\* i32 offsets handed to with_timezone_offset and in_timezone
TzOffsets ==
    {0, 1, 3600, -3600, 7200, -7200, 19800, 82800, -82800, 86399, -86399, 86400, -86400,
     100000}

TimeConfigs ==
    {TimeConfig(o, u) : <<o, u>> \in
        {"Error", "Truncate"} \X {Option_None, Some(3600), Some(90000)}}

\* u32 arguments of Time::from_timestamp_with_config
U32Seconds == {W(0), W(3740), W(86399), W(86400), U32_MAX}

U32Micros == {W(0), W(123), W(999999), W(1000000), W(1000001), U32_MAX}

\* i64 arguments of DateTime::from_timestamp_with_config
TzTimestampSamples ==
    EdgeSamples \cup {WThousands(1654619, 320), WThousands(1654619320, 123)}

(***************************************************************************)
(* Time and timezone entry points: a constructor call, then one            *)
(* timezone call on its result                                             *)
(***************************************************************************)
TimeConstructors ==
    {"Time::parse_bytes_with_config", "Time::from_timestamp_with_config"}

DateTimeConstructors ==
    {"DateTime::parse_bytes_rfc3339_with_config", "DateTime::from_timestamp_with_config"}

\* Time::parse_bytes_with_config(bytes, config)
ParseTime ==
    /\ Start
    /\ \E b \in TimeTexts, c \in TimeConfigs :
           /\ op' = "Time::parse_bytes_with_config"
           /\ inp' = [bytes |-> b, config |-> c]
           /\ out' = Time_parse_bytes_with_config(b, c)

\* Time::from_timestamp_with_config(timestamp_second, timestamp_microsecond, config)
TimeFromTimestamp ==
    /\ Start
    /\ \E s \in U32Seconds, us \in U32Micros, c \in TimeConfigs :
           /\ op' = "Time::from_timestamp_with_config"
           /\ inp' = [timestamp_second |-> s, timestamp_microsecond |-> us, config |-> c]
           /\ out' = Time_from_timestamp_with_config(s, us, c)

\* DateTime::parse_bytes_rfc3339_with_config(bytes, config)
ParseDateTime ==
    /\ Start
    /\ \E b \in DateTimeTexts, c \in TimeConfigs :
           /\ op' = "DateTime::parse_bytes_rfc3339_with_config"
           /\ inp' = [bytes |-> b, config |-> c]
           /\ out' = DateTime_parse_bytes_rfc3339_with_config(b, c)

\* DateTime::from_timestamp_with_config(timestamp, timestamp_microsecond, config)
DateTimeFromTimestampConfig ==
    /\ Start
    /\ \E t \in TzTimestampSamples, us \in U32Micros, c \in TimeConfigs :
           /\ op' = "DateTime::from_timestamp_with_config"
           /\ inp' = [timestamp |-> t, timestamp_microsecond |-> us, config |-> c]
           /\ out' = DateTime_from_timestamp_with_config(t, us, c)

\* t.with_timezone_offset(tz_offset) of a Time a constructor returned
TimeWithTimezoneOffset ==
    /\ op \in TimeConstructors
    /\ out.ok
    /\ \E z \in {Option_None} \cup {Some(n) : n \in TzOffsets} :
           /\ op' = "Time::with_timezone_offset"
           /\ inp' = [self |-> out.v, tz_offset |-> z]
           /\ out' = Time_with_timezone_offset(out.v, z)

\* t.in_timezone(tz_offset) of a Time a constructor returned
TimeInTimezone ==
    /\ op \in TimeConstructors
    /\ out.ok
    /\ \E n \in TzOffsets :
           /\ op' = "Time::in_timezone"
           /\ inp' = [self |-> out.v, tz_offset |-> n]
           /\ out' = Time_in_timezone(out.v, n)

\* dt.with_timezone_offset(tz_offset) of a DateTime a constructor returned
DateTimeWithTimezoneOffset ==
    /\ op \in DateTimeConstructors
    /\ out.ok
    /\ \E z \in {Option_None} \cup {Some(n) : n \in TzOffsets} :
           /\ op' = "DateTime::with_timezone_offset"
           /\ inp' = [self |-> out.v, tz_offset |-> z]
           /\ out' = DateTime_with_timezone_offset(out.v, z)

\* dt.in_timezone(tz_offset) of a DateTime a constructor returned
DateTimeInTimezone ==
    /\ op \in DateTimeConstructors
    /\ out.ok
    /\ \E n \in TzOffsets :
           /\ op' = "DateTime::in_timezone"
           /\ inp' = [self |-> out.v, tz_offset |-> n]
           /\ out' = DateTime_in_timezone(out.v, n)

NextTz ==
    \/ ParseTime
    \/ TimeFromTimestamp
    \/ ParseDateTime
    \/ DateTimeFromTimestampConfig
    \/ TimeWithTimezoneOffset
    \/ TimeInTimezone
    \/ DateTimeWithTimezoneOffset
    \/ DateTimeInTimezone

SpecTz == Init /\ [][NextTz]_vars

(***************************************************************************)
(* C8: every Time a call returns Ok (parsing with any TimeConfig, the      *)
(* timestamp constructors of Time and DateTime, with_timezone_offset,      *)
(* Time::in_timezone, DateTime::in_timezone) has hour <= 23, minute <= 59, *)
(* second <= 59, microsecond <= 999_999 and a tz_offset that is absent or  *)
(* strictly between -86_400 and 86_400.                                    *)
(***************************************************************************)
ValidTime(t) ==
    /\ t.hour \in 0..23
    /\ t.minute \in 0..59
    /\ t.second \in 0..59
    /\ t.microsecond \in 0..999999
    /\ t.tz_offset.some => (t.tz_offset.v > -86400 /\ t.tz_offset.v < 86400)

ReturnsTime ==
    op \in TimeConstructors \cup {"Time::with_timezone_offset", "Time::in_timezone"}

ReturnsDateTime ==
    op \in DateTimeConstructors \cup {"DateTime::with_timezone_offset", "DateTime::in_timezone"}

C8_TimeInvariant ==
    /\ (ReturnsTime /\ out.ok) => ValidTime(out.v)
    /\ (ReturnsDateTime /\ out.ok) => ValidTime(out.v.time)

(***************************************************************************)
(* C9: x.in_timezone(n) of a DateTime x with offset c is OutOfRangeTz when *)
(* |n| >= 86_400 and TzRequired when x has no offset; a result Ok(y) has   *)
(* tz_offset Some(n), the timestamp_tz() and microsecond of x, and         *)
(* y.timestamp() = x.timestamp() + (n - c).                                *)
(***************************************************************************)
C9_DateTimeInTimezone ==
    op = "DateTime::in_timezone" =>
        LET x == inp.self
            n == inp.tz_offset
            c == x.time.tz_offset
        IN  /\ (n >= 86400 \/ -n >= 86400) => IsErr(out, "OutOfRangeTz")
            /\ (n < 86400 /\ -n < 86400 /\ ~c.some) => IsErr(out, "TzRequired")
            /\ out.ok =>
                   /\ out.v.time.tz_offset = Some(n)
                   /\ DateTime_timestamp_tz(out.v) = DateTime_timestamp_tz(x)
                   /\ DateTime_timestamp(out.v) = WAdd(DateTime_timestamp(x), W(n - c.v))
                   /\ out.v.time.microsecond = x.time.microsecond

(***************************************************************************)
(* C10: t.in_timezone(n) of a Time t with offset c is TzRequired when t    *)
(* has no offset and OutOfRangeTz when |n| >= 86_400; a result Ok(u) has   *)
(* tz_offset Some(n), the microsecond of t, and u.total_seconds() - n      *)
(* congruent to t.total_seconds() - c modulo 86_400.                       *)
(***************************************************************************)
C10_TimeInTimezone ==
    op = "Time::in_timezone" =>
        LET t == inp.self
            n == inp.tz_offset
            c == t.tz_offset
        IN  /\ (n >= 86400 \/ -n >= 86400) => IsErr(out, "OutOfRangeTz")
            /\ (n < 86400 /\ -n < 86400 /\ ~c.some) => IsErr(out, "TzRequired")
            /\ out.ok =>
                   /\ out.v.tz_offset = Some(n)
                   /\ out.v.microsecond = t.microsecond
                   /\ (total_seconds(out.v) - n) % 86400 = (total_seconds(t) - c.v) % 86400

(***************************************************************************)
(* Ordering and equality of DateTime                                       *)
(***************************************************************************)
\* Some(Ordering) of two integers
int_partial_cmp(a, b) == IF a < b THEN "Less" ELSE IF a > b THEN "Greater" ELSE "Equal"

\* Some(Ordering) of two i64
i64_partial_cmp(a, b) ==
    IF WCmp(a, b) < 0 THEN "Less" ELSE IF WCmp(a, b) > 0 THEN "Greater" ELSE "Equal"

\* #[derive(PartialOrd)] on Date: year, then month, then day
Date_partial_cmp(a, b) ==
    IF a.year # b.year THEN int_partial_cmp(a.year, b.year)
    ELSE IF a.month # b.month THEN int_partial_cmp(a.month, b.month)
    ELSE int_partial_cmp(a.day, b.day)

\* impl PartialOrd for Time
Time_partial_cmp(a, b) ==
    IF a.tz_offset.some /\ b.tz_offset.some
    THEN LET x == total_seconds(a) - a.tz_offset.v
             y == total_seconds(b) - b.tz_offset.v
         IN  IF x = y THEN int_partial_cmp(a.microsecond, b.microsecond)
             ELSE int_partial_cmp(x, y)
    ELSE IF total_seconds(a) = total_seconds(b)
    THEN int_partial_cmp(a.microsecond, b.microsecond)
    ELSE int_partial_cmp(total_seconds(a), total_seconds(b))

\* DateTime_partial_cmp with the offsets never looked at
DateTime_partial_cmp_wall_clock(a, b) ==
    IF Date_partial_cmp(a.date, b.date) = "Equal"
    THEN Time_partial_cmp([a.time EXCEPT !.tz_offset = Option_None], b.time)
    ELSE Date_partial_cmp(a.date, b.date)

\* impl PartialOrd for DateTime
DateTime_partial_cmp(a, b) ==
    IF a.time.tz_offset.some /\ b.time.tz_offset.some
    THEN CHOOSE r \in
             {IF c = "Equal" THEN int_partial_cmp(a.time.microsecond, b.time.microsecond)
              ELSE c :
                 c \in {i64_partial_cmp(DateTime_timestamp_tz(a), DateTime_timestamp_tz(b))}} :
             TRUE
    ELSE IF Date_partial_cmp(a.date, b.date) = "Equal"
    THEN Time_partial_cmp(a.time, b.time)
    ELSE Date_partial_cmp(a.date, b.date)

\* #[derive(PartialEq)] on Option<i32>
Option_eq(a, b) == a.some = b.some /\ (a.some => a.v = b.v)

\* #[derive(PartialEq)] on Time
Time_eq(a, b) ==
    /\ a.hour = b.hour
    /\ a.minute = b.minute
    /\ a.second = b.second
    /\ a.microsecond = b.microsecond
    /\ Option_eq(a.tz_offset, b.tz_offset)

\* #[derive(PartialEq)] on Date
Date_eq(a, b) == a.year = b.year /\ a.month = b.month /\ a.day = b.day

\* #[derive(PartialEq)] on DateTime
DateTime_eq(a, b) == Date_eq(a.date, b.date) /\ Time_eq(a.time, b.time)

\* dates compared: both ends of the range and the days around 2000-01-01
CmpDates ==
    {Date(0, 1, 1), Date(1999, 12, 31), Date(2000, 1, 1), Date(2000, 1, 2), Date(9999, 12, 31)}

CmpClocks == {<<0, 0, 0>>, <<15, 0, 0>>, <<16, 0, 0>>, <<23, 0, 0>>, <<23, 59, 59>>}

CmpMicros == {0, 5}

CmpOffsets == {Option_None, Some(0), Some(3600), Some(-3600)}

CmpTimes ==
    {Time(c[1], c[2], c[3], us, z) : <<c, us, z>> \in CmpClocks \X CmpMicros \X CmpOffsets}

CmpDateTimes == {DateTime(d, t) : <<d, t>> \in CmpDates \X CmpTimes}

\* a.partial_cmp(&b) of two DateTime
DateTimePartialCmp ==
    /\ Start
    /\ \E a \in CmpDateTimes, b \in CmpDateTimes :
           /\ op' = "DateTime::partial_cmp"
           /\ inp' = [self |-> a, other |-> b]
           /\ out' = Ok(DateTime_partial_cmp(a, b))

\* a == b of two DateTime
DateTimeEq ==
    /\ Start
    /\ \E a \in CmpDateTimes, b \in CmpDateTimes :
           /\ op' = "DateTime::eq"
           /\ inp' = [self |-> a, other |-> b]
           /\ out' = Ok(DateTime_eq(a, b))

NextCmp ==
    \/ DateTimePartialCmp
    \/ DateTimeEq

SpecCmp == Init /\ [][NextCmp]_vars

\* the instant of a datetime with an offset, in seconds from 0000-01-01T00:00:00Z
InstantOf(dt) ==
    WAdd(WMulSmall(W(CivilDay(dt.date)), 86400),
         W(dt.time.hour * 3600 + dt.time.minute * 60 + dt.time.second - dt.time.tz_offset.v))

\* the order of two tuples of integers of one length, first difference first
RECURSIVE LexOrder(_, _)
LexOrder(x, y) ==
    IF x = <<>> THEN "Equal"
    ELSE IF Head(x) < Head(y) THEN "Less"
    ELSE IF Head(x) > Head(y) THEN "Greater"
    ELSE LexOrder(Tail(x), Tail(y))

WallClockKey(dt) ==
    <<dt.date.year, dt.date.month, dt.date.day,
      dt.time.hour * 3600 + dt.time.minute * 60 + dt.time.second, dt.time.microsecond>>

(***************************************************************************)
(* C11: partial_cmp of two datetimes that both carry an offset is the      *)
(* order of their instants (timestamp minus offset), the microsecond       *)
(* breaking ties; when one is naive it is the lexicographic order of       *)
(* (date, seconds of the day, microsecond) with offsets ignored.  == is    *)
(* equality of all fields, so 2000-01-01T15:00:00Z and                     *)
(* 2000-01-01T16:00:00+01:00 compare Equal and are not ==.                 *)
(***************************************************************************)
C11_DateTimeOrdering ==
    /\ op = "DateTime::partial_cmp" =>
           LET a == inp.self
               b == inp.other
           IN  /\ (a.time.tz_offset.some /\ b.time.tz_offset.some) =>
                      out.v = (IF InstantOf(a) = InstantOf(b)
                               THEN LexOrder(<<a.time.microsecond>>, <<b.time.microsecond>>)
                               ELSE IF WLt(InstantOf(a), InstantOf(b)) THEN "Less"
                               ELSE "Greater")
               /\ ~(a.time.tz_offset.some /\ b.time.tz_offset.some) =>
                      out.v = LexOrder(WallClockKey(a), WallClockKey(b))
               /\ (/\ a = DateTime(Date(2000, 1, 1), Time(15, 0, 0, 0, Some(0)))
                   /\ b = DateTime(Date(2000, 1, 1), Time(16, 0, 0, 0, Some(3600))))
                      => out.v = "Equal"
    /\ op = "DateTime::eq" =>
           /\ out.v = (inp.self = inp.other)
           /\ (/\ inp.self = DateTime(Date(2000, 1, 1), Time(15, 0, 0, 0, Some(0)))
               /\ inp.other = DateTime(Date(2000, 1, 1), Time(16, 0, 0, 0, Some(3600))))
                  => out.v = FALSE

\* two datetimes on different days and with different offsets compared Equal
C11_Witness ==
    /\ op = "DateTime::partial_cmp"
    /\ inp.self.date # inp.other.date
    /\ inp.self.time.tz_offset # inp.other.time.tz_offset
    /\ out.v = "Equal"

(***************************************************************************)
(* duration.rs: the fields of a Duration are u32 and held as limbs         *)
(***************************************************************************)
Duration(positive, day, second, microsecond) ==
    [positive |-> positive, day |-> day, second |-> second, microsecond |-> microsecond]

\* u32::checked_add
u32_checked_add(a, b) ==
    CHOOSE r \in {IF WLt(U32_MAX, sum) THEN Option_None ELSE Some(sum) :
                     sum \in {WAdd(a, b)}} : TRUE

\* u32::checked_mul by a factor of at most 3_600
u32_checked_mul(a, k) ==
    CHOOSE r \in {IF WLt(U32_MAX, product) THEN Option_None ELSE Some(product) :
                     product \in {WMulSmall(a, k)}} : TRUE

\* Duration::normalize with the day limit off by one
normalize_day_limit_exclusive(d) ==
    LET carry_second == ~WLt(d.microsecond, W(1000000))
        second == IF carry_second
                  THEN u32_checked_add(d.second, WDivMillion(d.microsecond))
                  ELSE Some(d.second)
        microsecond == IF carry_second THEN W(WRemMillion(d.microsecond)) ELSE d.microsecond
    IN  IF ~second.some THEN Err("DurationValueTooLarge")
        ELSE LET carry_day == ~WLt(second.v, W(86400))
                 day == IF carry_day
                        THEN u32_checked_add(d.day, WDivTrunc(second.v, 86400))
                        ELSE Some(d.day)
                 sec == IF carry_day THEN W(WRemTrunc(second.v, 86400)) ELSE second.v
             IN  IF ~day.some THEN Err("DurationValueTooLarge")
                 ELSE IF ~WLt(day.v, W(999999999)) THEN Err("DurationDaysTooLarge")
                 ELSE Ok(Duration(d.positive, day.v, sec, microsecond))

\* Duration::normalize: Ok of the normalized value of `self`
normalize(d) ==
    LET carry_second == ~WLt(d.microsecond, W(1000000))
        second == IF carry_second
                  THEN u32_checked_add(d.second, WDivMillion(d.microsecond))
                  ELSE Some(d.second)
        microsecond == IF carry_second THEN W(WRemMillion(d.microsecond)) ELSE d.microsecond
    IN  IF ~second.some THEN Err("DurationValueTooLarge")
        ELSE LET carry_day == ~WLt(second.v, W(86400))
                 day == IF carry_day
                        THEN u32_checked_add(d.day, WDivTrunc(second.v, 86400))
                        ELSE Some(d.day)
                 sec == IF carry_day THEN W(WRemTrunc(second.v, 86400)) ELSE second.v
             IN  IF ~day.some THEN Err("DurationValueTooLarge")
                 ELSE IF WLt(W(999999999), day.v) THEN Err("DurationDaysTooLarge")
                 ELSE Ok(Duration(d.positive, day.v, sec, microsecond))

\* Duration::new
Duration_new(positive, day, second, microsecond) ==
    normalize(Duration(positive, day, second, microsecond))

\* the loop of Duration::parse_number, from byte `position` on
RECURSIVE number_loop(_, _, _)
number_loop(bytes, position, value) ==
    IF ~is_ascii_digit(Get(bytes, position))
    THEN Ok([value |-> value, position |-> position])
    ELSE CHOOSE r \in
        {IF ~m.some THEN Err("DurationValueTooLarge")
         ELSE LET a == u32_checked_add(m.v, W(Get(bytes, position) - 48))
              IN  IF ~a.some THEN Err("DurationValueTooLarge")
                  ELSE number_loop(bytes, position + 1, a.v) :
            m \in {u32_checked_mul(value, 10)}} : TRUE

\* Duration::parse_number
parse_number(bytes, d1, offset) ==
    IF ~is_ascii_digit(d1) THEN Err("DurationInvalidNumber")
    ELSE number_loop(bytes, offset + 1, W(d1 - 48))

\* the loop of Duration::parse_number_frac: `decimal` and the number of
\* digits read, the denominator being 10^digits
RECURSIVE decimal_loop(_, _, _, _)
decimal_loop(bytes, position, decimal, digits) ==
    IF is_ascii_digit(Get(bytes, position))
    THEN CHOOSE r \in
        {decimal_loop(bytes, position + 1, next, digits + 1) :
            next \in {WAdd(WMulSmall(decimal, 10), W(Get(bytes, position) - 48))}} : TRUE
    ELSE [decimal |-> decimal, digits |-> digits, position |-> position]

\* Duration::parse_number_frac; the fraction is kept as decimal / 10^digits
parse_number_frac(bytes, d1, offset) ==
    CHOOSE r \in
        {IF ~n.ok THEN n
         ELSE IF Get(bytes, n.v.position) = 46 \/ Get(bytes, n.v.position) = 44
         THEN LET f == decimal_loop(bytes, n.v.position + 1, W(0), 0)
              IN  Ok([value |-> n.v.value,
                      fraction |-> Some([decimal |-> f.decimal, digits |-> f.digits]),
                      position |-> f.position])
         ELSE Ok([value |-> n.v.value, fraction |-> Option_None,
                  position |-> n.v.position]) :
            n \in {parse_number(bytes, d1, offset)}} : TRUE

\* w * 10^n and w / 10^n, four decimal places at a time
RECURSIVE WMulPow10(_, _)
WMulPow10(w, n) ==
    CHOOSE r \in {IF n <= 4 THEN p ELSE WMulPow10(p, n - 4) :
                     p \in {WMulSmall(w, IF n <= 4 THEN 10 ^ n ELSE 10000)}} : TRUE

RECURSIVE WDivPow10(_, _)
WDivPow10(w, n) ==
    CHOOSE r \in {IF n <= 4 THEN q ELSE WDivPow10(q, n - 4) :
                     q \in {WDivTrunc(w, IF n <= 4 THEN 10 ^ n ELSE 10000)}} : TRUE

WRemPow10(w, n) ==
    CHOOSE r \in {WSub(w, WMulPow10(q, n)) : q \in {WDivPow10(w, n)}} : TRUE

\* (x * 1_000_000.0).round() for x = rem / 10^digits below one: the f64
\* product of a fraction of up to six digits is within 10^-4 of this
\* integer, so the rounding is the exact one
round_micro(rem, digits) ==
    IF digits = 0 THEN W(0)
    ELSE CHOOSE r \in
        {WDivPow10(WAdd(scaled, WMulPow10(W(5), digits - 1)), digits) :
            scaled \in {WMulPow10(rem, 6)}} : TRUE

\* the fraction of a time quantity: fraction * mult split into whole seconds
\* and rounded microseconds
time_fraction(fraction, mult) ==
    CHOOSE r \in
        {CHOOSE q \in
             {[second |-> WDivPow10(extra_seconds, fraction.digits),
               microsecond |-> round_micro(rem, fraction.digits)] :
                 rem \in {WRemPow10(extra_seconds, fraction.digits)}} : TRUE :
            extra_seconds \in {WMulSmall(fraction.decimal, mult)}} : TRUE

\* the remainder of a date quantity below one day, as seconds and rounded
\* microseconds
day_remainder(rem_days, digits) ==
    CHOOSE r \in
        {CHOOSE q \in
             {[second |-> WDivPow10(extra_seconds, digits),
               microsecond |-> round_micro(rem, digits)] :
                 rem \in {WRemPow10(extra_seconds, digits)}} : TRUE :
            extra_seconds \in {WMulSmall(rem_days, 86400)}} : TRUE

\* the fraction of a date quantity: fraction * mult split into whole days,
\* whole seconds and rounded microseconds
date_fraction(fraction, mult) ==
    CHOOSE r \in
        {CHOOSE q \in
             {[day |-> WDivPow10(extra_days, fraction.digits),
               second |-> f.second, microsecond |-> f.microsecond] :
                 f \in {day_remainder(WRemPow10(extra_days, fraction.digits),
                                      fraction.digits)}} : TRUE :
            extra_days \in {WMulSmall(fraction.decimal, mult)}} : TRUE

\* the multiplier of a unit byte after T: H M S
time_unit(c) == IF c = 72 THEN 3600 ELSE IF c = 77 THEN 60 ELSE IF c = 83 THEN 1 ELSE 0

\* the multiplier of a unit byte before T with a year of 366 days
date_unit_leap_year(c) ==
    IF c = 89 THEN 366 ELSE IF c = 77 THEN 30 ELSE IF c = 87 THEN 7
    ELSE IF c = 68 THEN 1 ELSE 0

\* the multiplier of a unit byte before T: Y M W D
date_unit(c) ==
    IF c = 89 THEN 365 ELSE IF c = 77 THEN 30 ELSE IF c = 87 THEN 7
    ELSE IF c = 68 THEN 1 ELSE 0

\* one <number><unit> after T added to the running fields
time_component(n, mult, d) ==
    CHOOSE r \in
        {IF ~second.some THEN Err("DurationValueTooLarge")
         ELSE IF ~n.fraction.some THEN Ok([d EXCEPT !.second = second.v])
         ELSE CHOOSE q \in
             {CHOOSE k \in
                  {IF ~s2.some \/ ~us.some THEN Err("DurationValueTooLarge")
                   ELSE Ok([d EXCEPT !.second = s2.v, !.microsecond = us.v]) :
                      <<s2, us>> \in {<<u32_checked_add(second.v, f.second),
                                        u32_checked_add(d.microsecond, f.microsecond)>>}} : TRUE :
                 f \in {time_fraction(n.fraction.v, mult)}} : TRUE :
            second \in {CHOOSE w \in
                           {IF whole.some THEN u32_checked_add(d.second, whole.v)
                            ELSE Option_None :
                               whole \in {u32_checked_mul(n.value, mult)}} : TRUE}} : TRUE

\* one <number><unit> before T added to the running fields
date_component(n, mult, d) ==
    CHOOSE r \in
        {IF ~day.some THEN Err("DurationValueTooLarge")
         ELSE IF ~n.fraction.some THEN Ok([d EXCEPT !.day = day.v])
         ELSE CHOOSE q \in
             {CHOOSE k \in
                  {IF ~d2.some \/ ~s2.some THEN Err("DurationValueTooLarge")
                   ELSE Ok([d EXCEPT !.day = d2.v, !.second = s2.v,
                                     !.microsecond = WAdd(d.microsecond, f.microsecond)]) :
                      <<d2, s2>> \in {<<u32_checked_add(day.v, f.day),
                                        u32_checked_add(d.second, f.second)>>}} : TRUE :
                 f \in {date_fraction(n.fraction.v, mult)}} : TRUE :
            day \in {CHOOSE w \in
                        {IF whole.some THEN u32_checked_add(d.day, whole.v)
                         ELSE Option_None :
                            whole \in {u32_checked_mul(n.value, mult)}} : TRUE}} : TRUE

\* the loop of parse_iso_duration ends with `result`
iso_stop(result) == [done |-> TRUE, result |-> result]

\* the <unit> byte of one round: the result when the loop ends here, the
\* variables for the next round otherwise
iso_unit(n, mult, got_t, d) ==
    IF mult = 0
    THEN iso_stop(Err(IF got_t THEN "DurationInvalidTimeUnit" ELSE "DurationInvalidDateUnit"))
    ELSE CHOOSE r \in
        {IF ~next.ok THEN iso_stop(next)
         ELSE [done |-> FALSE, position |-> n.position + 1, got_t |-> got_t,
               last_had_fraction |-> n.fraction.some, d |-> next.v] :
            next \in {IF got_t THEN time_component(n, mult, d)
                      ELSE date_component(n, mult, d)}} : TRUE

\* one round of the loop of Duration::parse_iso_duration, with a component
\* accepted after a fractional one
iso_round_fraction_anywhere(bytes, position, got_t, last_had_fraction, d) ==
    IF Get(bytes, position) = -1 THEN iso_stop(Ok([position |-> position, d |-> d]))
    ELSE IF Get(bytes, position) = 84
    THEN IF got_t THEN iso_stop(Err("DurationTRepeated"))
         ELSE [done |-> FALSE, position |-> position + 1, got_t |-> TRUE,
               last_had_fraction |-> last_had_fraction, d |-> d]
    ELSE CHOOSE r \in
        {IF ~n.ok THEN iso_stop(n)
         ELSE iso_unit(n.v,
                       IF got_t THEN time_unit(Get(bytes, n.v.position))
                       ELSE date_unit(Get(bytes, n.v.position)),
                       got_t, d) :
            n \in {parse_number_frac(bytes, Get(bytes, position), position)}} : TRUE

\* one round of the loop of Duration::parse_iso_duration: the result when the
\* loop ends in this round, the variables for the next round otherwise;
\* d holds day, second, microsecond
iso_round(bytes, position, got_t, last_had_fraction, d) ==
    IF Get(bytes, position) = -1 THEN iso_stop(Ok([position |-> position, d |-> d]))
    ELSE IF Get(bytes, position) = 84
    THEN IF got_t THEN iso_stop(Err("DurationTRepeated"))
         ELSE [done |-> FALSE, position |-> position + 1, got_t |-> TRUE,
               last_had_fraction |-> last_had_fraction, d |-> d]
    ELSE CHOOSE r \in
        {IF ~n.ok THEN iso_stop(n)
         ELSE IF last_had_fraction THEN iso_stop(Err("DurationInvalidFraction"))
         ELSE iso_unit(n.v,
                       IF got_t THEN time_unit(Get(bytes, n.v.position))
                       ELSE date_unit(Get(bytes, n.v.position)),
                       got_t, d) :
            n \in {parse_number_frac(bytes, Get(bytes, position), position)}} : TRUE

\* the loop of Duration::parse_iso_duration
RECURSIVE iso_loop(_, _, _, _, _)
iso_loop(bytes, position, got_t, last_had_fraction, d) ==
    CHOOSE r \in
        {IF round.done THEN round.result
         ELSE iso_loop(bytes, round.position, round.got_t, round.last_had_fraction,
                       round.d) :
            round \in {iso_round(bytes, position, got_t, last_had_fraction, d)}} : TRUE

\* Duration::parse_iso_duration
parse_iso_duration(bytes, offset) ==
    LET r == iso_loop(bytes, offset, FALSE, FALSE, Duration(FALSE, W(0), W(0), W(0)))
    IN  IF ~r.ok THEN r
        ELSE IF r.v.position < 3 THEN Err("TooShort")
        ELSE Ok(r.v.d)

\* Duration::is_duration_date_format
is_duration_date_format(bytes) == \E i \in 1..Len(bytes) : bytes[i] = 100 \/ bytes[i] = 68

\* the days_only! macro of parse_days_time
days_only(day) == Ok(Duration(FALSE, day, W(0), W(0)))

\* Duration::parse_days_time
parse_days_time(bytes, offset) ==
    IF Get(bytes, offset) = -1 THEN Err("TooShort")
    ELSE CHOOSE r \in
        {IF ~n.ok THEN n
             ELSE LET day == n.v.value
                      p1 == IF Get(bytes, n.v.position) = 32 THEN n.v.position + 1
                            ELSE n.v.position
                      p2 == p1 + 1
                      word == Get(bytes, p2) = 97 \/ Get(bytes, p2) = 65
                      p3 == IF ~word THEN p2
                            ELSE IF Get(bytes, p2 + 2) = 115 \/ Get(bytes, p2 + 2) = 83
                            THEN p2 + 3
                            ELSE p2 + 2
                      p4 == IF Get(bytes, p3) = 44 THEN p3 + 1 ELSE p3
                      p5 == IF Get(bytes, p4) = 32 THEN p4 + 1 ELSE p4
                  IN  IF Get(bytes, n.v.position) \notin {32, 100, 68}
                      THEN Err("DurationInvalidDays")
                      ELSE IF Get(bytes, p1) \notin {100, 68} THEN Err("DurationInvalidDays")
                      ELSE IF word /\ Get(bytes, p2 + 1) \notin {121, 89}
                      THEN Err("DurationInvalidDays")
                      ELSE IF word /\ Get(bytes, p2 + 2) = -1 THEN days_only(day)
                      ELSE IF Get(bytes, p2) = -1 THEN days_only(day)
                      ELSE IF Get(bytes, p3) = -1 THEN days_only(day)
                      ELSE IF Get(bytes, p4) = -1 THEN days_only(day)
                      ELSE IF Get(bytes, p5) = -1 THEN days_only(day)
                      ELSE LET t == Time_parse_bytes_offset(bytes, p5, DefaultTimeConfig)
                           IN  IF ~t.ok THEN t
                               ELSE Ok(Duration(FALSE, day,
                                                W(t.v.hour * 3600 + t.v.minute * 60
                                                  + t.v.second),
                                                W(t.v.microsecond))) :
            n \in {parse_number(bytes, Get(bytes, offset), offset)}} : TRUE

\* HOUR_NUMERIC_LIMIT of parse_time: 24 * 10^8
HOUR_NUMERIC_LIMIT == WThousands(2400000, 0)

\* the `for byte in hour_part` loop of parse_time
RECURSIVE hour_loop(_, _, _)
hour_loop(hour_part, i, hour) ==
    IF i > Len(hour_part) THEN Ok(hour)
    ELSE IF ~is_ascii_digit(hour_part[i]) THEN Err("InvalidCharHour")
    ELSE CHOOSE r \in
        {hour_loop(hour_part, i + 1, next) :
            next \in {WAdd(WMulSmall(hour, 10), W(hour_part[i] - 48))}} : TRUE

\* Duration::parse_time with the hours not carried into days
parse_time_hours_not_carried(bytes, offset, config) ==
    IF offset > Len(bytes) THEN Err("panic")
    ELSE IF Len(bytes) - offset < 5 THEN Err("TooShort")
    ELSE IF \A i \in (offset + 1)..Len(bytes) : bytes[i] # 58 THEN Err("InvalidCharHour")
    ELSE LET colon == CHOOSE i \in (offset + 1)..Len(bytes) :
                          bytes[i] = 58 /\ \A j \in (offset + 1)..(i - 1) : bytes[j] # 58
             hour_part == SubSeq(bytes, offset + 1, colon - 1)
             rest == SubSeq(bytes, colon + 1, Len(bytes))
             hour == CHOOSE h \in {hour_loop(hour_part, 1, W(0))} : TRUE
             remaining == IF 3 + Len(rest) > 15 THEN SubSeq(rest, 1, 12) ELSE rest
             new_bytes == <<48, 48, 58>> \o remaining
             t == PureTime_parse(new_bytes, 0, config)
         IN  IF Len(hour_part) > 10 THEN Err("DurationHourValueTooLarge")
             ELSE IF ~hour.ok THEN hour
             ELSE IF WLt(HOUR_NUMERIC_LIMIT, hour.v) THEN Err("DurationHourValueTooLarge")
             ELSE IF 3 + Len(rest) > 15 /\ config.overflow = "Error"
             THEN Err("SecondFractionTooLong")
             ELSE IF ~t.ok THEN t
             ELSE IF Len(new_bytes) > t.v.position THEN Err("ExtraCharacters")
             ELSE Ok(Duration(FALSE, W(0),
                              W(t.v.hour * 3600 + t.v.minute * 60 + t.v.second
                                + WRemTrunc(hour.v, 24) * 3600),
                              W(t.v.microsecond)))

\* Duration::parse_time; `byte_len - offset` underflows when offset > len
parse_time(bytes, offset, config) ==
    IF offset > Len(bytes) THEN Err("panic")
    ELSE IF Len(bytes) - offset < 5 THEN Err("TooShort")
    ELSE IF \A i \in (offset + 1)..Len(bytes) : bytes[i] # 58 THEN Err("InvalidCharHour")
    ELSE LET colon == CHOOSE i \in (offset + 1)..Len(bytes) :
                          bytes[i] = 58 /\ \A j \in (offset + 1)..(i - 1) : bytes[j] # 58
             hour_part == SubSeq(bytes, offset + 1, colon - 1)
             rest == SubSeq(bytes, colon + 1, Len(bytes))
             hour == CHOOSE h \in {hour_loop(hour_part, 1, W(0))} : TRUE
             remaining == IF 3 + Len(rest) > 15 THEN SubSeq(rest, 1, 12) ELSE rest
             new_bytes == <<48, 48, 58>> \o remaining
             t == PureTime_parse(new_bytes, 0, config)
         IN  IF Len(hour_part) > 10 THEN Err("DurationHourValueTooLarge")
             ELSE IF ~hour.ok THEN hour
             ELSE IF WLt(HOUR_NUMERIC_LIMIT, hour.v) THEN Err("DurationHourValueTooLarge")
             ELSE IF 3 + Len(rest) > 15 /\ config.overflow = "Error"
             THEN Err("SecondFractionTooLong")
             ELSE IF ~t.ok THEN t
             ELSE IF Len(new_bytes) > t.v.position THEN Err("ExtraCharacters")
             ELSE Ok(Duration(FALSE, WDivTrunc(hour.v, 24),
                              W(t.v.hour * 3600 + t.v.minute * 60 + t.v.second
                                + WRemTrunc(hour.v, 24) * 3600),
                              W(t.v.microsecond)))

\* Duration::parse_bytes_with_config
Duration_parse_bytes_with_config(bytes, config) ==
    IF Len(bytes) = 0 THEN Err("TooShort")
    ELSE LET positive == bytes[1] # 45
             offset == IF bytes[1] = 43 \/ bytes[1] = 45 THEN 1 ELSE 0
         IN  CHOOSE r \in
                 {IF ~d.ok THEN d ELSE normalize([d.v EXCEPT !.positive = positive]) :
                     d \in {IF Get(bytes, offset) = 80 THEN parse_iso_duration(bytes, offset + 1)
                            ELSE IF is_duration_date_format(bytes) \/ Len(bytes) < 5
                            THEN parse_days_time(bytes, offset)
                            ELSE parse_time(bytes, offset, config)}} : TRUE

\* Duration::parse_bytes and Duration::parse_str
Duration_parse_bytes(bytes) == Duration_parse_bytes_with_config(bytes, DefaultTimeConfig)

(***************************************************************************)
(* duration.rs: Display and PartialOrd                                     *)
(***************************************************************************)
\* "{}" of a u32
RECURSIVE u32_to_string(_)
u32_to_string(w) ==
    IF WLt(w, W(10)) THEN <<48 + WToInt(w)>>
    ELSE CHOOSE r \in
        {u32_to_string(q) \o <<48 + WRemTrunc(w, 10)>> : q \in {WDivTrunc(w, 10)}} : TRUE

\* "{:06}" of a u32
RECURSIVE pad6(_)
pad6(s) == IF Len(s) >= 6 THEN s ELSE pad6(<<48>> \o s)

\* str::trim_end_matches('0')
RECURSIVE trim_end_zeros(_)
trim_end_zeros(s) ==
    IF s # <<>> /\ s[Len(s)] = 48 THEN trim_end_zeros(SubSeq(s, 1, Len(s) - 1)) ELSE s

\* Duration::to_hms
to_hms(d) ==
    [hours |-> WDivTrunc(d.second, 3600),
     minutes |-> W(WRemTrunc(d.second, 3600) \div 60),
     remaining_seconds |-> W(WRemTrunc(d.second, 60))]

\* impl fmt::Display for Duration: the bytes written
Duration_to_string(d) ==
    LET year == WDivTrunc(d.day, 365)
        day == W(WRemTrunc(d.day, 365))
        hms == to_hms(d)
        unit(n, c) == IF n # W(0) THEN u32_to_string(n) \o <<c>> ELSE <<>>
        fraction == IF d.microsecond # W(0)
                    THEN <<46>> \o trim_end_zeros(pad6(u32_to_string(d.microsecond)))
                    ELSE <<>>
        seconds == IF hms.remaining_seconds # W(0) \/ d.microsecond # W(0)
                   THEN u32_to_string(hms.remaining_seconds) \o fraction \o <<83>>
                   ELSE <<>>
    IN  (IF ~d.positive THEN <<45>> ELSE <<>>)
        \o <<80>>
        \o (IF d.day # W(0) THEN unit(year, 89) \o unit(day, 68) ELSE <<>>)
        \o (IF d.second # W(0) \/ d.microsecond # W(0)
            THEN <<84>> \o unit(hms.hours, 72) \o unit(hms.minutes, 77) \o seconds
            ELSE <<>>)
        \o (IF d.second = W(0) /\ d.microsecond = W(0) /\ d.day = W(0)
            THEN <<84, 48, 83>>
            ELSE <<>>)

\* partial_cmp of two (u32, u32, u32) tuples
tuple_partial_cmp(s, t) ==
    IF s[1] # t[1] THEN i64_partial_cmp(s[1], t[1])
    ELSE IF s[2] # t[2] THEN i64_partial_cmp(s[2], t[2])
    ELSE i64_partial_cmp(s[3], t[3])

\* Duration_partial_cmp with the sign of two negative durations not applied
Duration_partial_cmp_by_magnitude(self, other) ==
    IF self.positive /\ ~other.positive THEN "Greater"
    ELSE IF ~self.positive /\ other.positive THEN "Less"
    ELSE tuple_partial_cmp(<<self.day, self.second, self.microsecond>>,
                           <<other.day, other.second, other.microsecond>>)

\* impl PartialOrd for Duration
Duration_partial_cmp(self, other) ==
    IF self.positive /\ ~other.positive THEN "Greater"
    ELSE IF ~self.positive /\ other.positive THEN "Less"
    ELSE IF self.positive
    THEN tuple_partial_cmp(<<self.day, self.second, self.microsecond>>,
                           <<other.day, other.second, other.microsecond>>)
    ELSE tuple_partial_cmp(<<other.day, other.second, other.microsecond>>,
                           <<self.day, self.second, self.microsecond>>)

\* equality of the magnitudes alone
Duration_eq_magnitude(self, other) ==
    /\ self.day = other.day
    /\ self.second = other.second
    /\ self.microsecond = other.microsecond

\* #[derive(PartialEq)] on Duration
Duration_eq(self, other) ==
    /\ self.positive = other.positive
    /\ self.day = other.day
    /\ self.second = other.second
    /\ self.microsecond = other.microsecond

(***************************************************************************)
(* Duration arguments and texts                                            *)
(***************************************************************************)
\* u32 day, second and microsecond arguments of Duration::new
NewDays ==
    {W(0), W(1), W(364), W(365), W(366), W(999999999), W(1000000000), U32_MAX}

NewSeconds ==
    {W(0), W(1), W(59), W(60), W(3600), W(3661), W(86399), W(86400), W(86500), U32_MAX}

NewMicros ==
    {W(0), W(1), W(10), W(123000), W(999999), W(1000000), W(1000123), W(905969663),
     U32_MAX}

\* ISO 8601 durations, well formed or not
IsoTexts ==
    {"P", "PT", "+P", "-P", "+PT", "-PT", "PT0S", "-PT0S", "+PT0S", "P1Y", "P1D",
     "P0D", "P1M", "P1W", "P1.5M", "P123.8Y", "P1.123W", "P1YT2.1S", "P3DT4H5M6.7S",
     "PT30M", "PT0.000001S", "PT59.999999S", "P2739726Y9DT23H59M59.999999S",
     "P2739726Y10D", "P4294967296D", "P4294967295D", "P12000000Y", "PT4294967295S",
     "PT86400S", "P1T1S", "PT1D", "PTT1S", "P1.5Y1D", "PxD", "P1", "PT1", "P1,5D",
     "p1D", "P1.D", "PT1.5H", "PT0.5M", "P0.5D", "-P1DT1S", "P1Y2M3W4DT5H6M7S",
     "P1DT1.1M1S", "P1.5DT1H", "P1H", "P1S", "PT1Y", "PT1W", "P1DT1MT1S", "P1DT1X", "P1X",
     "PT1M", "P1MT1M", "PT1.5H30M", "P1.5DT", "PT1.5S", "P1.5D1X", "PT1.5ST", "-P1DT1.5S"}

\* durations with a day word, well formed or not
DaysTexts ==
    {"1 day", "1day", "1 day,", "1 day, ", "1days", "1DAYS", "1d", "1d ", "x", "1x",
     "1dx", "1da", "1", "1 ", "1 x", "-1 day", "+1 day", "123days", "1 day 00:00:42",
     "-1 day 00:00:42", "1 day 00:", "1 day 00:xx", "1 day 00:00:00.123 ", "1d 12:00",
     "1d 12:00Z", "1d 12:00z", "1 day 12:00:00+01:00", "1d 12:00-23:59",
     "1d 12:00+24:00", "1d,12:30:15.5", "1 Day, 23:59:59.999999", "1  d", "1d  12:00",
     "1d,,12:00", "1dy", "1 days 12:00x", "999999999d", "1000000000d", "4294967296d",
     "", "+", "-"}

\* clock durations, well formed or not
ClockTexts ==
    {"00:00:42", "12:30", "25:00:00", "100:00:00", "2400000000:00:00",
     "2400000001:00:00", "12345678901:00:00", "1x:00:00", "12345", "01:02:03.1234567",
     "01:02:03.123456", "-01:02:03", "+12:34:56.5", ":30:00", "01:02:03Z", "01:60:00",
     "2399999999:59:59", "2400000000:01:03.654321", "9999999999:00:00",
     "10000000000:00:00", "1000xxx000:01:03", "1 10:10", "1:00", "1:00:00", "-1:00",
     "-1:00:00", "24:01:03", "47:59", "100000000000000000000000:01:03", "0000000024:00"}

DurationTexts == {Ascii(s) : s \in IsoTexts \cup DaysTexts \cup ClockTexts}

DurationConfigs == {TimeConfig("Error", Option_None), TimeConfig("Truncate", Option_None)}

\* normalized durations compared with each other
CmpDurations ==
    {Duration(p, W(d), W(s), W(us)) :
        <<p, d, s, us>> \in BOOLEAN \X {0, 1, 2} \X {0, 1, 86399} \X {0, 999999}}

(***************************************************************************)
(* Duration entry points: a constructor call, to_string on its result,     *)
(* parse_str on the text; and comparisons                                  *)
(***************************************************************************)
DurationConstructors == {"Duration::new", "Duration::parse_bytes_with_config"}

\* Duration::new(positive, day, second, microsecond)
DurationNew ==
    /\ Start
    /\ \E p \in BOOLEAN, d \in NewDays, s \in NewSeconds, us \in NewMicros :
           /\ op' = "Duration::new"
           /\ inp' = [positive |-> p, day |-> d, second |-> s, microsecond |-> us]
           /\ out' = Duration_new(p, d, s, us)

\* Duration::parse_bytes_with_config(bytes, config)
ParseDuration ==
    /\ Start
    /\ \E b \in DurationTexts, c \in DurationConfigs :
           /\ op' = "Duration::parse_bytes_with_config"
           /\ inp' = [bytes |-> b, config |-> c]
           /\ out' = Duration_parse_bytes_with_config(b, c)

\* d.to_string() of a Duration a constructor returned
DurationToString ==
    /\ op \in DurationConstructors
    /\ out.ok
    /\ op' = "Duration::to_string"
    /\ inp' = [self |-> out.v]
    /\ out' = Ok(Duration_to_string(out.v))

\* Duration::parse_str of the text to_string wrote for `self`
DurationParseStr ==
    /\ op = "Duration::to_string"
    /\ op' = "Duration::parse_str"
    /\ inp' = [self |-> inp.self, bytes |-> out.v]
    /\ out' = Duration_parse_bytes(out.v)

\* a.partial_cmp(&b) of two Duration
DurationPartialCmp ==
    /\ Start
    /\ \E a \in CmpDurations, b \in CmpDurations :
           /\ op' = "Duration::partial_cmp"
           /\ inp' = [self |-> a, other |-> b]
           /\ out' = Ok(Duration_partial_cmp(a, b))

\* a == b of two Duration
DurationEq ==
    /\ Start
    /\ \E a \in CmpDurations, b \in CmpDurations :
           /\ op' = "Duration::eq"
           /\ inp' = [self |-> a, other |-> b]
           /\ out' = Ok(Duration_eq(a, b))

NextDur ==
    \/ DurationNew
    \/ ParseDuration
    \/ DurationToString
    \/ DurationParseStr
    \/ DurationPartialCmp
    \/ DurationEq

SpecDur == Init /\ [][NextDur]_vars

(***************************************************************************)
(* Durations, stated independently of the code                             *)
(***************************************************************************)
\* d * 86_400_000_000 + s * 1_000_000 + us
TotalMicros(d, s, us) ==
    WAdd(WMulSmall(WMulSmall(WMulSmall(d, 86400), 1000), 1000),
         WAdd(WMulSmall(WMulSmall(s, 1000), 1000), us))

Normalized(d) ==
    /\ WLe(d.microsecond, W(999999))
    /\ WLe(d.second, W(86399))
    /\ WLe(d.day, W(999999999))

ReturnsDuration == op \in DurationConstructors \cup {"Duration::parse_str"}

\* the second field after the microseconds are rolled into it
SecondCarried(s, us) == WAdd(s, WDivMillion(us))

\* the day field after the seconds are rolled into it
DayCarried(d, s, us) == WAdd(d, WDivTrunc(SecondCarried(s, us), 86400))

(***************************************************************************)
(* C12: every Duration that Duration::new or parsing returns Ok has        *)
(* microsecond <= 999_999, second <= 86_399 and day <= 999_999_999.        *)
(* Duration::new(positive, d, s, us) returning Ok keeps the sign and the   *)
(* total d * 86_400_000_000 + s * 1_000_000 + us; it is                    *)
(* DurationValueTooLarge when a carry overflows the 32-bit second or day   *)
(* field and DurationDaysTooLarge when the normalized day is above         *)
(* 999_999_999, as for new(true, 999_999_999, 86_399, 1_000_000).          *)
(***************************************************************************)
C12_DurationNormalized ==
    /\ (ReturnsDuration /\ out.ok) => Normalized(out.v)
    /\ op = "Duration::new" =>
           LET overflow ==
                   \/ WLt(U32_MAX, SecondCarried(inp.second, inp.microsecond))
                   \/ WLt(U32_MAX, DayCarried(inp.day, inp.second, inp.microsecond))
               too_large ==
                   WLt(W(999999999), DayCarried(inp.day, inp.second, inp.microsecond))
           IN  /\ out.ok =>
                      /\ out.v.positive = inp.positive
                      /\ TotalMicros(out.v.day, out.v.second, out.v.microsecond)
                             = TotalMicros(inp.day, inp.second, inp.microsecond)
               /\ IsErr(out, "DurationValueTooLarge") <=> overflow
               /\ IsErr(out, "DurationDaysTooLarge") <=> (~overflow /\ too_large)
               /\ out.ok <=> (~overflow /\ ~too_large)
               /\ (/\ inp.day = W(999999999)
                   /\ inp.second = W(86399)
                   /\ inp.microsecond = W(1000000))
                      => IsErr(out, "DurationDaysTooLarge")

\* microseconds were rolled into the seconds and the seconds into the days
C12_Witness ==
    /\ op = "Duration::new"
    /\ inp.second = W(86399)
    /\ inp.microsecond = W(1000123)
    /\ out.ok
    /\ out.v = Duration(inp.positive, WAdd(inp.day, W(1)), W(0), W(123))

\* (day, second, microsecond) of a normalized duration
DurationKey(d) == <<WToInt(d.day), WToInt(d.second), WToInt(d.microsecond)>>

(***************************************************************************)
(* C13: partial_cmp of two durations: a positive one is greater than any   *)
(* negative one; two positive ones are in the lexicographic order of (day, *)
(* second, microsecond); two negative ones are in the reverse of that      *)
(* order, so -P2D < -P1D and +P1D > -P2D.                                  *)
(***************************************************************************)
C13_DurationOrdering ==
    op = "Duration::partial_cmp" =>
        LET a == inp.self
            b == inp.other
        IN  /\ (a.positive /\ ~b.positive) => out.v = "Greater"
            /\ (~a.positive /\ b.positive) => out.v = "Less"
            /\ (a.positive /\ b.positive) => out.v = LexOrder(DurationKey(a), DurationKey(b))
            /\ (~a.positive /\ ~b.positive) => out.v = LexOrder(DurationKey(b), DurationKey(a))
            /\ (/\ a = Duration(FALSE, W(2), W(0), W(0))
                /\ b = Duration(FALSE, W(1), W(0), W(0))) => out.v = "Less"
            /\ (/\ a = Duration(TRUE, W(1), W(0), W(0))
                /\ b = Duration(FALSE, W(2), W(0), W(0))) => out.v = "Greater"

\* the longer of two negative durations compared Less
C13_Witness ==
    /\ op = "Duration::partial_cmp"
    /\ inp.self = Duration(FALSE, W(2), W(0), W(0))
    /\ inp.other = Duration(FALSE, W(1), W(86399), W(999999))
    /\ out.v = "Less"

(***************************************************************************)
(* C15: for every normalized Duration d of either sign, both signed zeros  *)
(* included, Duration::parse_str(d.to_string()) returns Ok(d); the text    *)
(* starts with '-' iff d is negative, then 'P', the years (day / 365) and  *)
(* days (day % 365) that are not zero, then 'T' with the hours and minutes *)
(* that are not zero and the seconds with up to six fraction digits,       *)
(* trailing zeros trimmed, and it is 'PT0S' when every magnitude is zero.  *)
(***************************************************************************)
C15_DurationRoundTrip ==
    op = "Duration::parse_str" =>
        LET d == inp.self
            text == inp.bytes
            is(day, second, microsecond) ==
                /\ d.day = W(day) /\ d.second = W(second) /\ d.microsecond = W(microsecond)
            unsigned == IF d.positive THEN text ELSE SubSeq(text, 2, Len(text))
        IN  /\ Normalized(d)
            /\ out = Ok(d)
            /\ text[1] = 45 <=> ~d.positive
            /\ unsigned[1] = 80
            /\ is(0, 0, 0) => unsigned = Ascii("PT0S")
            /\ is(1, 0, 0) => unsigned = Ascii("P1D")
            /\ is(365, 0, 0) => unsigned = Ascii("P1Y")
            /\ is(366, 0, 0) => unsigned = Ascii("P1Y1D")
            /\ is(0, 3661, 0) => unsigned = Ascii("PT1H1M1S")
            /\ is(0, 60, 0) => unsigned = Ascii("PT1M")
            /\ is(0, 0, 123000) => unsigned = Ascii("PT0.123S")
            /\ is(0, 0, 10) => unsigned = Ascii("PT0.00001S")
            /\ is(999999999, 86399, 999999)
                   => unsigned = Ascii("P2739726Y9DT23H59M59.999999S")

\* the longest negative duration printed and read back
C15_Witness ==
    /\ op = "Duration::parse_str"
    /\ inp.self = Duration(FALSE, W(999999999), W(86399), W(999999))
    /\ inp.bytes = Ascii("-P2739726Y9DT23H59M59.999999S")
    /\ out = Ok(inp.self)

\* the ISO 8601 inputs: an optional sign, then P
IsoInput(bytes) ==
    \/ Get(bytes, 0) = 80
    \/ Get(bytes, 0) \in {43, 45} /\ Get(bytes, 1) = 80

(***************************************************************************)
(* C16: an ISO 8601 duration text (an optional '+' or '-', then 'P') is    *)
(* accepted only if it holds at least one <number><unit> component: the    *)
(* texts without one, 'P', 'PT', '+P', '-P', '+PT', '-PT', are rejected    *)
(* with TooShort and never give a zero Duration.                           *)
(***************************************************************************)
C16_IsoNeedsComponent ==
    (op = "Duration::parse_bytes_with_config" /\ IsoInput(inp.bytes)) =>
        /\ out.ok => \E i \in 1..Len(inp.bytes) : is_ascii_digit(inp.bytes[i])
        /\ inp.bytes \in {Ascii("P"), Ascii("PT"), Ascii("+P"), Ascii("-P"),
                          Ascii("+PT"), Ascii("-PT")} => out = Err("TooShort")

\* the human-days inputs: not ISO 8601, and holding a d or D or too short
\* for a clock
HumanDaysInput(bytes) ==
    /\ Len(bytes) > 0
    /\ ~IsoInput(bytes)
    /\ is_duration_date_format(bytes) \/ Len(bytes) < 5

\* the bytes a text of the shape <digits> [space] d|D [ay [s]] [,] [space]
\* [HH:MM[:SS[.f]]] can end with
HumanDaysEnd == {Code(" "), Code(","), Code("d"), Code("D"), Code("y"), Code("Y"),
                 Code("s"), Code("S")} \cup 48..57

(***************************************************************************)
(* C17: a human-days duration is accepted only in the shape [sign]         *)
(* <digits> [one space] d|D [ay [s]] [,] [one space] [HH:MM[:SS[.f]]] with *)
(* nothing after the clock remainder: a timezone designator such as 'Z' or *)
(* '+01:00' after the clock makes the parse fail, and without the day word *)
(* ('1', '1 ', '1x', '1 x', '1da') it fails with DurationInvalidDays.      *)
(***************************************************************************)
C17_HumanDaysShape ==
    (op = "Duration::parse_bytes_with_config" /\ HumanDaysInput(inp.bytes)) =>
        /\ out.ok => inp.bytes[Len(inp.bytes)] \in HumanDaysEnd
        /\ inp.bytes \in {Ascii("1d 12:00Z"), Ascii("1 day 12:00:00+01:00")} => ~out.ok
        /\ inp.bytes \in {Ascii("1"), Ascii("1 "), Ascii("1x"), Ascii("1 x"), Ascii("1da")}
               => out = Err("DurationInvalidDays")

(***************************************************************************)
(* Display of Time, and the format / parse chain                           *)
(***************************************************************************)
\* crate::display_num_buf: `value` written as `num` decimal digits, zero
\* padded, into buf[start .. start + num]
display_num_buf(num, start, value, buf) ==
    [i \in 1..Len(buf) |->
        IF i - 1 >= start /\ i - 1 < start + num
        THEN 48 + ((value \div (10 ^ (start + num - i))) % 10)
        ELSE buf[i]]

\* i32 / and % : the quotient truncated toward zero, the remainder with the
\* sign of the dividend
i32_div(a, b) == IF a >= 0 THEN a \div b ELSE -((-a) \div b)

i32_rem(a, b) == IF a >= 0 THEN a % b ELSE -((-a) % b)

\* i32::unsigned_abs
unsigned_abs(a) == IF a >= 0 THEN a ELSE -a

\* Display for Time: the text of Some(tz_offset)
Time_tz_to_string(tz_offset) ==
    IF tz_offset = 0 THEN Ascii("Z")
    ELSE LET total_minutes == i32_div(tz_offset, 60)
             hours == i32_div(total_minutes, 60)
             minutes == i32_rem(total_minutes, 60)
             buf == IF tz_offset < 0 THEN Ascii("-00:00") ELSE Ascii("+00:00")
         IN  display_num_buf(2, 4, unsigned_abs(minutes),
                 display_num_buf(2, 1, unsigned_abs(hours), buf))

\* Display for Time
Time_to_string(t) ==
    LET clock == display_num_buf(2, 6, t.second,
                     display_num_buf(2, 3, t.minute,
                         display_num_buf(2, 0, t.hour,
                             IF t.microsecond # 0 THEN Ascii("00:00:00.000000")
                             ELSE Ascii("00:00:00"))))
        body == IF t.microsecond # 0 THEN display_num_buf(6, 9, t.microsecond, clock)
                ELSE clock
    IN  IF t.tz_offset.some THEN body \o Time_tz_to_string(t.tz_offset.v) ELSE body

\* the fields of the Time values printed
FmtHours == {0, 9, 12, 23}

FmtMinutes == {0, 5, 59}

FmtSeconds == {0, 7, 59}

FmtMicros == {0, 1, 123000, 999999}

\* the offsets handed to with_timezone_offset before printing
FmtOffsets ==
    {Option_None} \cup
    {Some(o) : o \in {0, 1, -30, 59, 60, -60, 3600, -3600, 19800, -34200, 86340, -86340,
                      86399, -86399, 86400}}

\* Time { .. }.with_timezone_offset(tz_offset)
FmtWithTimezoneOffset ==
    /\ Start
    /\ \E h \in FmtHours, m \in FmtMinutes, s \in FmtSeconds, us \in FmtMicros,
          o \in FmtOffsets :
        /\ op' = "Time::with_timezone_offset"
        /\ inp' = [self |-> Time(h, m, s, us, Option_None), tz_offset |-> o]
        /\ out' = Time_with_timezone_offset(Time(h, m, s, us, Option_None), o)

\* t.to_string() of the Time built
TimeToString ==
    /\ op = "Time::with_timezone_offset"
    /\ out.ok
    /\ op' = "Time::to_string"
    /\ inp' = [self |-> out.v]
    /\ out' = Ok(Time_to_string(out.v))

\* Time::parse_str of the text printed
TimeParseStr ==
    /\ op = "Time::to_string"
    /\ op' = "Time::parse_str"
    /\ inp' = [self |-> inp.self, bytes |-> out.v]
    /\ out' = Time_parse_bytes_with_config(out.v, DefaultTimeConfig)

NextFmt ==
    \/ FmtWithTimezoneOffset
    \/ TimeToString
    \/ TimeParseStr

SpecFmt == Init /\ [][NextFmt]_vars

(***************************************************************************)
(* C14: for every Time t with hour <= 23, minute <= 59, second <= 59,      *)
(* microsecond <= 999_999 and tz_offset absent or of absolute value below  *)
(* 86_400 (every value with_timezone_offset accepts),                      *)
(* Time::parse_str(t.to_string()) returns Ok(t); the text is HH:MM:SS,     *)
(* then .ffffff iff microsecond # 0, then Z for offset 0 or +HH:MM /       *)
(* -HH:MM for another offset.                                              *)
(***************************************************************************)
C14_TimeRoundTrip ==
    op = "Time::parse_str" =>
        LET t == inp.self
            text == inp.bytes
            body == IF t.microsecond # 0 THEN 15 ELSE 8
        IN  /\ out = Ok(t)
            /\ Len(text) = body + (IF ~t.tz_offset.some THEN 0
                                   ELSE IF t.tz_offset.v = 0 THEN 1 ELSE 6)
            /\ text[3] = 58 /\ text[6] = 58
            /\ t.microsecond # 0 => text[9] = 46
            /\ (t.tz_offset.some /\ t.tz_offset.v = 0) => text[body + 1] = 90
            /\ (t.tz_offset.some /\ t.tz_offset.v > 0) => text[body + 1] = 43
            /\ (t.tz_offset.some /\ t.tz_offset.v < 0) => text[body + 1] = 45
            /\ t = Time(9, 5, 7, 123000, Some(-34200))
                   => text = Ascii("09:05:07.123000-09:30")

\* the timezone suffix of a parsed text and what the parser made of it, for
\* the texts with the body 12:13:14 or 2000-01-01T12:00:00
TzSuffix ==
    IF op = "Time::parse_bytes_with_config" THEN SubSeq(inp.bytes, 9, Len(inp.bytes))
    ELSE SubSeq(inp.bytes, 20, Len(inp.bytes))

TzSuffixParsed ==
    \/ /\ op = "Time::parse_bytes_with_config"
       /\ Len(inp.bytes) >= 8
       /\ SubSeq(inp.bytes, 1, 8) = TimeText(12, 13, 14)
    \/ /\ op = "DateTime::parse_bytes_rfc3339_with_config"
       /\ Len(inp.bytes) >= 19
       /\ SubSeq(inp.bytes, 1, 19) = DateText(2000, 1, 1) \o <<84>> \o TimeText(12, 0, 0)

TzResult ==
    IF ~out.ok THEN out
    ELSE IF op = "Time::parse_bytes_with_config" THEN Ok(out.v.tz_offset)
    ELSE Ok(out.v.time.tz_offset)

(***************************************************************************)
(* C18: the timezone suffix of a parsed Time or DateTime: Z or z is offset *)
(* 0; a sign (+, -, or the bytes E2 88 92 of U+2212, both minus forms      *)
(* negative), two hour digits and then :MM or MM give sign * (hours * 3600 *)
(* + minutes * 60); a minute field >= 60 fails with OutOfRangeTzMinute, an *)
(* absolute offset >= 86_400 with OutOfRangeTz (+23:59 and -23:59 are      *)
(* accepted, +24:00, -24:00 and +99:59 rejected), a non-digit in the hour  *)
(* or minute field with InvalidCharTzHour / InvalidCharTzMinute, and an    *)
(* incomplete U+2212 with InvalidCharTzSign.                               *)
(***************************************************************************)
C18_TimezoneSuffix ==
    TzSuffixParsed =>
        LET z == TzSuffix
            r == TzResult
            sl == IF Len(z) >= 1 /\ z[1] \in {43, 45} THEN 1
                  ELSE IF Len(z) >= 3 /\ SubSeq(z, 1, 3) = <<226, 136, 146>> THEN 3
                  ELSE 0
            sign == IF z[1] = 43 THEN 1 ELSE -1
            rest == SubSeq(z, sl + 1, Len(z))
            shaped == sl > 0 /\ (Len(rest) = 4 \/ (Len(rest) = 5 /\ rest[3] = 58))
            hh == SubSeq(rest, 1, 2)
            mm == SubSeq(rest, Len(rest) - 1, Len(rest))
            isnum(f) == \A i \in 1..2 : f[i] \in 48..57
            num(f) == (f[1] - 48) * 10 + (f[2] - 48)
            is(offset) == r.ok /\ r.v = Some(offset)
            fails(e) == ~r.ok /\ r.e = e
        IN  /\ z \in {<<90>>, <<122>>} => is(0)
            /\ (shaped /\ isnum(hh) /\ isnum(mm)) =>
                   IF num(mm) >= 60 THEN fails("OutOfRangeTzMinute")
                   ELSE IF num(hh) * 3600 + num(mm) * 60 >= 86400
                   THEN fails("OutOfRangeTz")
                   ELSE is(sign * (num(hh) * 3600 + num(mm) * 60))
            /\ (shaped /\ ~isnum(hh)) => fails("InvalidCharTzHour")
            /\ (shaped /\ isnum(hh) /\ ~isnum(mm)) => fails("InvalidCharTzMinute")
            /\ (Len(z) >= 1 /\ z[1] = 226 /\ sl = 0) => fails("InvalidCharTzSign")
            /\ z = Ascii("+23:59") => is(86340)
            /\ z = Ascii("-23:59") => is(-86340)
            /\ z \in {Ascii("+24:00"), Ascii("-24:00"), Ascii("+99:59")}
                   => fails("OutOfRangeTz")
            /\ z = <<226, 136, 146>> \o Ascii("05:30") => is(-19800)
            /\ z = Ascii("-0930") => is(-34200)

\* a time with the offset U+2212 23:59 was parsed
C18_Witness ==
    /\ op = "Time::parse_bytes_with_config"
    /\ inp.bytes = TimeText(12, 13, 14) \o <<226, 136, 146>> \o Ascii("23:59")
    /\ out = Ok(Time(12, 13, 14, 0, Some(-86340)))

(***************************************************************************)
(* C19: the second fraction of a time body: after HH:MM:SS a '.' or ','    *)
(* must be followed by at least one digit (else SecondFractionMissing);    *)
(* with k <= 6 digits the microsecond is the digits right-padded with      *)
(* zeros to six places; with k >= 7 digits the result is                   *)
(* SecondFractionTooLong under Error, and under Truncate the microsecond   *)
(* is the first six digits, the further digits are skipped and the         *)
(* timezone suffix is parsed after them.                                   *)
(***************************************************************************)
C19_SecondFraction ==
    (/\ op = "Time::parse_bytes_with_config"
     /\ Len(inp.bytes) >= 9
     /\ SubSeq(inp.bytes, 1, 8) = TimeText(12, 13, 14)
     /\ inp.bytes[9] \in {46, 44}) =>
        LET b == inp.bytes
            k == Cardinality({i \in 10..Len(b) : \A j \in 10..i : b[j] \in 48..57})
            place(j) == IF j <= k THEN (b[9 + j] - 48) * (10 ^ (6 - j)) ELSE 0
            micro == place(1) + place(2) + place(3) + place(4) + place(5) + place(6)
            rest == SubSeq(b, 10 + k, Len(b))
            fails(e) == ~out.ok /\ out.e = e
            is(tz_offset) == out.ok /\ out.v = Time(12, 13, 14, micro, tz_offset)
        IN  IF k = 0 THEN fails("SecondFractionMissing")
            ELSE IF k >= 7 /\ inp.config.overflow = "Error"
            THEN fails("SecondFractionTooLong")
            ELSE /\ out.ok => (out.v.microsecond = micro /\ out.v.second = 14)
                 /\ rest = <<>> => is(Option_None)
                 /\ rest = <<90>> => is(Some(0))
                 /\ rest = Ascii("+05:30") => is(Some(19800))
                 /\ rest = Ascii("+24:00") => fails("OutOfRangeTz")
                 /\ rest = <<120>> => fails("InvalidCharTzSign")

\* nine fraction digits were cut to six and the offset after them was read
C19_Witness ==
    /\ op = "Time::parse_bytes_with_config"
    /\ inp.config.overflow = "Truncate"
    /\ inp.bytes = Ascii("12:13:14.123456789+05:30")
    /\ out = Ok(Time(12, 13, 14, 123456, Some(19800)))

(***************************************************************************)
(* C20: a standalone Time text is consumed whole: when a byte remains      *)
(* after a valid time body without a timezone ('12:13x', '23:59:59 ',      *)
(* '23:59:59xxx') or after a complete timezone suffix ('12:00:00Z '),      *)
(* Time::parse_str fails with ExtraCharacters.                             *)
(***************************************************************************)
C20_TimeConsumesInput ==
    op = "Time::parse_bytes_with_config" =>
        \A body \in {Ascii("12:13"), Ascii("23:59:59"), Ascii("12:00:00")},
           extra \in TzTrailing \cup {Ascii("x")} :
            inp.bytes = body \o extra => IsErr(out, "ExtraCharacters")

(***************************************************************************)
(* numbers.rs: float_parse_bytes                                           *)
(***************************************************************************)
\* 2^64
TWO_64 == WAdd(WAdd(I64_MAX, I64_MAX), W(2))

\* the i64 a mathematical value at or above i64::MIN wraps to
RECURSIVE wrap_i64(_)
wrap_i64(v) ==
    IF WLt(I64_MAX, v) THEN CHOOSE r \in {wrap_i64(x) : x \in {WSub(v, TWO_64)}} : TRUE
    ELSE v

\* i64::wrapping_mul(10)
wrapping_mul_10(x) == CHOOSE r \in {wrap_i64(p) : p \in {WMulSmall(x, 10)}} : TRUE

\* i64::wrapping_add of a digit
wrapping_add(x, value) == CHOOSE r \in {wrap_i64(s) : s \in {WAdd(x, W(value))}} : TRUE

\* enum IntFloat
IntFloat_Int(v) == [kind |-> "Int", v |-> v]

\* a finite f64 held as the decimal (-1)^neg * mant / 10^digits it was read
\* from
IntFloat_Float(neg, mant, digits) ==
    [kind |-> "Float", v |-> [neg |-> neg, mant |-> mant, digits |-> digits]]

IntFloat_Err == [kind |-> "Err", v |-> "none"]

\* DECODE_MAP[byte]: the digit, or ERR
ERR == 255

DECODE_MAP(byte) == IF byte \in 48..57 THEN byte - 48 ELSE ERR

\* a run of digits from index i (0-based) on: its value and the index after it
RECURSIVE digit_run(_, _, _)
digit_run(s, i, value) ==
    IF ~is_ascii_digit(Get(s, i)) THEN [value |-> value, position |-> i]
    ELSE CHOOSE r \in
        {digit_run(s, i + 1, next) :
            next \in {WAdd(WMulSmall(value, 10), W(Get(s, i) - 48))}} : TRUE

\* f64::from_lexical_with_options in the STANDARD format on a text that is
\* [sign] digits '.' ...: digits '.' digits* with an optional exponent
\* e|E [sign] digits+ of at most two digits
from_lexical(s) ==
    LET neg == Get(s, 0) = 45
        first == IF Get(s, 0) \in {43, 45} THEN 1 ELSE 0
        int == digit_run(s, first, W(0))
        frac == digit_run(s, int.position + 1, int.value)
        digits == frac.position - (int.position + 1)
        has_exp == Get(s, frac.position) \in {101, 69}
        exp_neg == Get(s, frac.position + 1) = 45
        exp_first == IF Get(s, frac.position + 1) \in {43, 45} THEN frac.position + 2
                     ELSE frac.position + 1
        exp == digit_run(s, exp_first, W(0))
        shift == digits - (IF exp_neg THEN -WToInt(exp.value) ELSE WToInt(exp.value))
    IN  IF int.position = first \/ Get(s, int.position) # 46 THEN IntFloat_Err
        ELSE IF frac.position = Len(s) THEN IntFloat_Float(neg, frac.value, digits)
        ELSE IF ~has_exp \/ exp.position = exp_first \/ exp.position # Len(s)
                \/ exp.position - exp_first > 2
        THEN IntFloat_Err
        ELSE IF shift >= 0 THEN IntFloat_Float(neg, frac.value, shift)
        ELSE IntFloat_Float(neg, WMulPow10(frac.value, -shift), 0)

\* parse_possible_float
parse_possible_float(s, current_digit) ==
    IF current_digit # 46 THEN IntFloat_Err ELSE from_lexical(s)

\* the `for &digit in digits` loop of float_parse_bytes, from index i on
RECURSIVE float_digits(_, _, _)
float_digits(s, i, int_part) ==
    IF i >= Len(s) THEN [kind |-> "Int", v |-> int_part]
    ELSE IF DECODE_MAP(Get(s, i)) = ERR THEN parse_possible_float(s, Get(s, i))
    ELSE CHOOSE r \in
        {IF next.neg THEN IntFloat_Err ELSE float_digits(s, i + 1, next) :
            next \in {wrapping_add(wrapping_mul_10(int_part), DECODE_MAP(Get(s, i)))}} : TRUE

\* float_parse_bytes
float_parse_bytes(s) ==
    LET neg == Get(s, 0) = 45 /\ Len(s) >= 2
        first == IF (Get(s, 0) = 45 \/ Get(s, 0) = 43) /\ Len(s) >= 2 THEN 1 ELSE 0
    IN  IF Len(s) = 0 THEN IntFloat_Err
        ELSE IF DECODE_MAP(Get(s, first)) = ERR THEN IntFloat_Err
        ELSE CHOOSE r \in
            {IF r0.kind = "Int" /\ neg THEN IntFloat_Int(WNeg(r0.v)) ELSE r0 :
                r0 \in {float_digits(s, first + 1, W(DECODE_MAP(Get(s, first))))}} : TRUE

(***************************************************************************)
(* Number texts and the calls of the number parsers                        *)
(***************************************************************************)
\* integers around the ends of i64 and of u64, with signs and leading zeros
IntegerTexts ==
    {"0", "1", "-1", "+1", "00", "-0", "+0", "007", "123", "-123", "+123",
     "1585201087123789", "1111111111111111", "0000000000000000000001",
     "9223372036854775806", "9223372036854775807", "9223372036854775808",
     "9223372036854775809", "+9223372036854775807", "+9223372036854775808",
     "-9223372036854775807", "-9223372036854775808", "-9223372036854775809",
     "09223372036854775807", "092233720368547758089", "-092233720368547758089",
     "18446744073709551615", "18446744073709551616", "18446744073709551620",
     "-18446744073709551620", "27670116110564327424", "36893488147419103232",
     "99999999999999999999", "184467440737095516160", "100000000000000000000000"}

\* texts that are not integers
NotIntegerTexts ==
    {"", "-", "+", "--1", "+-1", "-+1", "++1", "xxx", "12x", "x12", "1 ", " 1", "1-", "1+1",
     "1.", "1.5", "-1.5", "1.0", "111111111.11111", "123.XX", "123.12 ", "1e5", "1.5e3",
     "1.5E-2", "1.5.5", "1,5", "0.000001"}

NumTexts == {Ascii(s) : s \in IntegerTexts \cup NotIntegerTexts}

\* int_parse_bytes(s)
IntParseBytes ==
    /\ Start
    /\ \E s \in NumTexts :
        /\ op' = "int_parse_bytes"
        /\ inp' = [bytes |-> s]
        /\ out' = int_parse_bytes(s)

\* float_parse_bytes(s)
FloatParseBytes ==
    /\ Start
    /\ \E s \in NumTexts :
        /\ op' = "float_parse_bytes"
        /\ inp' = [bytes |-> s]
        /\ out' = float_parse_bytes(s)

NextNum ==
    \/ IntParseBytes
    \/ FloatParseBytes

SpecNum == Init /\ [][NextNum]_vars

\* the texts str::parse::<i64> reads digits from: one optional sign, then one
\* or more digits and nothing else
DecimalText(s) ==
    LET first == IF Len(s) >= 1 /\ s[1] \in {43, 45} THEN 2 ELSE 1
    IN  Len(s) >= first /\ \A i \in first..Len(s) : s[i] \in 48..57

\* the value of the digits s[first .. n]
RECURSIVE DecimalMagnitude(_, _, _)
DecimalMagnitude(s, first, n) ==
    IF n < first THEN W(0)
    ELSE WAdd(WMulSmall(DecimalMagnitude(s, first, n - 1), 10), W(s[n] - 48))

\* the signed value of a decimal text
DecimalValue(s) ==
    LET magnitude == DecimalMagnitude(s, IF s[1] \in {43, 45} THEN 2 ELSE 1, Len(s))
    IN  IF s[1] = 45 THEN WNeg(magnitude) ELSE magnitude

FitsI64(v) == WLe(I64_MIN, v) /\ WLe(v, I64_MAX)

(***************************************************************************)
(* C21: int_parse_bytes agrees with the standard signed 64-bit decimal     *)
(* parser: it returns Some(v) iff the input is one optional '+' or '-',    *)
(* then one or more ASCII digits and nothing else, with value v and        *)
(* -2^63 <= v <= 2^63 - 1; it returns None for the empty input, a lone     *)
(* sign, '--1', a non-digit byte and a value outside that range.           *)
(***************************************************************************)
C21_IntParseStandard ==
    op = "int_parse_bytes" =>
        LET s == inp.bytes
            accepted == DecimalText(s) /\ FitsI64(DecimalValue(s))
        IN  /\ out.some <=> accepted
            /\ out.some => out.v = DecimalValue(s)
            /\ s \in {Ascii(""), Ascii("-"), Ascii("+"), Ascii("--1"), Ascii("xxx"),
                      Ascii("9223372036854775808"), Ascii("-9223372036854775809")}
                   => ~out.some

(***************************************************************************)
(* C22: float_parse_bytes never returns a wrong integer: for an input of   *)
(* an optional sign and one or more ASCII digits, of any length, it        *)
(* returns Int(v) only if v is the exact decimal value of the input, and   *)
(* Err whenever that value does not fit in a signed 64-bit integer.        *)
(***************************************************************************)
C22_FloatExactInteger ==
    (op = "float_parse_bytes" /\ DecimalText(inp.bytes)) =>
        /\ out.kind # "Float"
        /\ out.kind = "Int" => out.v = DecimalValue(inp.bytes)
        /\ ~FitsI64(DecimalValue(inp.bytes)) => out.kind = "Err"

(***************************************************************************)
(* datetime.rs: the permissive parser, RFC 3339 first and a Unix timestamp *)
(* otherwise                                                               *)
(***************************************************************************)
\* decimal_digits: the length of what follows the first '.', from index i on
RECURSIVE decimal_digits_from(_, _)
decimal_digits_from(bytes, i) ==
    IF i >= Len(bytes) THEN 0
    ELSE IF Get(bytes, i) = 46 THEN Len(bytes) - (i + 1)
    ELSE decimal_digits_from(bytes, i + 1)

\* decimal_digits
decimal_digits(bytes) == decimal_digits_from(bytes, 0)

\* float.abs() > MS_WATERSHED as f64
timestamp_in_milliseconds(float) == WLt(WMulPow10(MS_WATERSHED, float.digits), float.mant)

\* timestamp_normalized.floor() as i64 and timestamp_normalized - seconds as
\* f64, for timestamp_normalized = (-1)^neg * mant / 10^digits: the
\* difference is held as rem / 10^digits. Beyond the i64 range the cast
\* saturates and the difference is far outside the u32 range.
floor_seconds(float, digits) ==
    CHOOSE r \in
        {LET rem == WSub(float.mant, WMulPow10(q, digits))
             down == float.neg /\ WLt(W(0), rem)
             seconds == IF down THEN WNeg(WAdd(q, W(1)))
                        ELSE IF float.neg THEN WNeg(q) ELSE q
         IN  IF WLt(I64_MAX, seconds) THEN [seconds |-> I64_MAX, saturated |-> U32_MAX]
             ELSE IF WLt(seconds, I64_MIN) THEN [seconds |-> I64_MIN, saturated |-> W(0)]
             ELSE [seconds |-> seconds, saturated |-> W(-1),
                   rem |-> IF down THEN WSub(WMulPow10(W(1), digits), rem) ELSE rem] :
            q \in {WDivPow10(float.mant, digits)}} : TRUE

\* the IntFloat::Float arm of DateTime::parse_bytes_with_config, without
\* rounding the microseconds
DateTime_from_float_truncating(bytes, float, config) ==
    LET ms == timestamp_in_milliseconds(float)
        decimal_digits_count == decimal_digits(bytes)
        digits == IF ms THEN float.digits + 3 ELSE float.digits
    IN  IF config.overflow = "Error" /\ ms /\ decimal_digits_count > 3
        THEN Err("MillisecondFractionTooLong")
        ELSE IF config.overflow = "Error" /\ ~ms /\ decimal_digits_count > 6
        THEN Err("SecondFractionTooLong")
        ELSE CHOOSE r \in
            {DateTime_from_timestamp_with_config(
                 f.seconds,
                 IF f.saturated.neg THEN WDivPow10(WMulPow10(f.rem, 6), digits)
                 ELSE f.saturated,
                 config) :
                f \in {floor_seconds(float, digits)}} : TRUE

\* the IntFloat::Float arm of DateTime::parse_bytes_with_config
DateTime_from_float(bytes, float, config) ==
    LET ms == timestamp_in_milliseconds(float)
        decimal_digits_count == decimal_digits(bytes)
        digits == IF ms THEN float.digits + 3 ELSE float.digits
    IN  IF config.overflow = "Error" /\ ms /\ decimal_digits_count > 3
        THEN Err("MillisecondFractionTooLong")
        ELSE IF config.overflow = "Error" /\ ~ms /\ decimal_digits_count > 6
        THEN Err("SecondFractionTooLong")
        ELSE CHOOSE r \in
            {DateTime_from_timestamp_with_config(
                 f.seconds,
                 IF f.saturated.neg THEN round_micro(f.rem, digits) ELSE f.saturated,
                 config) :
                f \in {floor_seconds(float, digits)}} : TRUE

\* the Err arm of DateTime::parse_bytes_with_config, with the default
\* TimeConfig for an integer timestamp
DateTime_from_number_default_config(bytes, e, config) ==
    CHOOSE r \in
        {IF n.kind = "Int" THEN DateTime_from_timestamp_with_config(n.v, W(0), DefaultTimeConfig)
         ELSE IF n.kind = "Float" THEN DateTime_from_float(bytes, n.v, config)
         ELSE e :
            n \in {float_parse_bytes(bytes)}} : TRUE

\* the Err arm of DateTime::parse_bytes_with_config: match float_parse_bytes(bytes)
DateTime_from_number(bytes, e, config) ==
    CHOOSE r \in
        {IF n.kind = "Int" THEN DateTime_from_timestamp_with_config(n.v, W(0), config)
         ELSE IF n.kind = "Float" THEN DateTime_from_float(bytes, n.v, config)
         ELSE e :
            n \in {float_parse_bytes(bytes)}} : TRUE

\* DateTime::parse_bytes_with_config
DateTime_parse_bytes_with_config(bytes, config) ==
    CHOOSE r \in
        {IF d.ok THEN d ELSE DateTime_from_number(bytes, d, config) :
            d \in {DateTime_parse_bytes_rfc3339_with_config(bytes, config)}} : TRUE

(***************************************************************************)
(* Timestamp texts and the calls that take a TimeConfig                    *)
(***************************************************************************)
\* Unix timestamps with a fraction. None is within 0.2 of a rounding tie in
\* microseconds and none is within 10^-4 of the watershed, so the f64
\* arithmetic of the code and the decimal arithmetic here give one result.
FractionalTimestampTexts ==
    {"1654646404.5", "-1654646404.123456", "1654646404.", "1654646404.1234567",
     "1654646404.1234564", "1654646404.123456", "1654646404123.4567", "1654646404123.456",
     "1654646404123.4", "-1654646404123.4567", "1689102037.5586429", "0.5", "-6.25",
     "-0.000001", "0.000001", "0.0000004", "0.0000006", "0.9999996", "1.0", "1.5e3",
     "1.5E-2", "19999999999.5", "20000000000.0", "20000000001.0", "20000000000.5",
     "-20000000000.5", "253402300799.5", "253402300799999.5", "253402300800000.5",
     "-62167219200.5", "-11676096000.5"}

\* Unix timestamps without a fraction, and texts that are neither a
\* timestamp nor a datetime
WholeTimestampTexts ==
    {"0", "-1", "1654646400", "1654646404123", "20000000000", "20000000001",
     "-11676096000", "253402300799", "253402300800000", "9223372036854775807",
     "9223372036854775808", "18446744073709551620", "", "xxx", "1654646400x", "1e5",
     "2022-01-01", "12:13:14"}

\* RFC 3339 datetimes
Rfc3339Texts ==
    {"2022-01-01T12:13:14", "2022-01-01T12:13:14Z", "2022-01-01T12:13:14+02:00",
     "2022-01-01 12:13:14-03:30", "2022-01-01t12:13:14z", "2022-01-01T12:13",
     "2022-01-01T12:13:14.123456", "2022-01-01T12:13:14.1234567",
     "2022-01-01T12:13:14.123456789+01:00", "1970-01-01T00:00:00+00:00",
     "2022-01-01T12:13:14+24:00", "2022-01-01T25:13:14", "2022-01-01T12:13:14x"}

PermissiveTexts ==
    {Ascii(s) : s \in FractionalTimestampTexts \cup WholeTimestampTexts \cup Rfc3339Texts}

\* DateTime::parse_bytes_with_config(bytes, config)
ParseDateTimePermissive ==
    /\ Start
    /\ \E b \in PermissiveTexts, c \in TimeConfigs :
           /\ op' = "DateTime::parse_bytes_with_config"
           /\ inp' = [bytes |-> b, config |-> c]
           /\ out' = DateTime_parse_bytes_with_config(b, c)

NextStamp ==
    \/ ParseDateTimePermissive
    \/ ParseTime
    \/ TimeFromTimestamp
    \/ DateTimeFromTimestampConfig

SpecStamp == Init /\ [][NextStamp]_vars

\* a text [-] digits '.' digits*, and the 1-based index of its '.'
DotIndex(bytes) == CHOOSE i \in 1..Len(bytes) : bytes[i] = 46

FractionalTimestampText(bytes) ==
    LET first == IF Len(bytes) >= 1 /\ bytes[1] = 45 THEN 2 ELSE 1
    IN  \E i \in (first + 1)..Len(bytes) :
            /\ bytes[i] = 46
            /\ \A j \in (first..Len(bytes)) \ {i} : bytes[j] \in 48..57

\* the absolute value of the text is above 2 * 10^10, the range of milliseconds
MillisecondRange(bytes) ==
    LET dot == DotIndex(bytes)
        first == IF bytes[1] = 45 THEN 2 ELSE 1
        whole == DecimalMagnitude(bytes, first, dot - 1)
    IN  \/ WLt(MS_WATERSHED, whole)
        \/ whole = MS_WATERSHED /\ \E j \in (dot + 1)..Len(bytes) : bytes[j] # 48

\* the digits that follow the decimal point of the seconds
SecondFractionDigits(bytes) ==
    LET dot == DotIndex(bytes)
    IN  IF MillisecondRange(bytes) THEN SubSeq(bytes, dot - 3, dot - 1) \o SubSeq(bytes, dot + 1, Len(bytes))
        ELSE SubSeq(bytes, dot + 1, Len(bytes))

\* the first k of the digits d as a number, zeros after the last digit
RECURSIVE PrefixValue(_, _)
PrefixValue(d, k) ==
    IF k = 0 THEN 0
    ELSE PrefixValue(d, k - 1) * 10 + (IF k <= Len(d) THEN d[k] - 48 ELSE 0)

\* more fraction digits than the range allows
FractionTooLong(bytes) ==
    Len(bytes) - DotIndex(bytes) > (IF MillisecondRange(bytes) THEN 3 ELSE 6)

(***************************************************************************)
(* C23, as stated: DateTime::parse_bytes_with_config on a fractional       *)
(* timestamp with more than 6 fraction digits (seconds range) or more than *)
(* 3 (milliseconds range) fails under Error with SecondFractionTooLong /   *)
(* MillisecondFractionTooLong, and under Truncate succeeds with the        *)
(* fraction truncated, not rounded, to microseconds: 1654646404.1234567    *)
(* gives microsecond 123456.                                               *)
(***************************************************************************)
C23_PrecisionPolicyTruncates ==
    (/\ op = "DateTime::parse_bytes_with_config"
     /\ FractionalTimestampText(inp.bytes)
     /\ FractionTooLong(inp.bytes)) =>
        IF inp.config.overflow = "Error"
        THEN /\ ~out.ok
             /\ out.e = IF MillisecondRange(inp.bytes) THEN "MillisecondFractionTooLong"
                        ELSE "SecondFractionTooLong"
        ELSE /\ out.ok
             /\ inp.bytes[1] # 45 =>
                    out.v.time.microsecond = PrefixValue(SecondFractionDigits(inp.bytes), 6)

(***************************************************************************)
(* C23, amended: under Error the two errors are as stated; under Truncate  *)
(* the parse succeeds and the fraction is rounded to the nearest           *)
(* microsecond, a rounded-up 999999.5 or more carrying into the second:    *)
(* 1654646404.1234567 gives microsecond 123457.                            *)
(***************************************************************************)
C23_PrecisionPolicy ==
    (/\ op = "DateTime::parse_bytes_with_config"
     /\ FractionalTimestampText(inp.bytes)
     /\ FractionTooLong(inp.bytes)) =>
        IF inp.config.overflow = "Error"
        THEN /\ ~out.ok
             /\ out.e = IF MillisecondRange(inp.bytes) THEN "MillisecondFractionTooLong"
                        ELSE "SecondFractionTooLong"
        ELSE /\ out.ok
             /\ inp.bytes[1] # 45 =>
                    out.v.time.microsecond =
                        ((PrefixValue(SecondFractionDigits(inp.bytes), 7) + 5) \div 10) % 1000000

\* 1654646404.1234567 was parsed under Truncate and came back with the
\* microsecond rounded up
C23_Witness ==
    /\ op = "DateTime::parse_bytes_with_config"
    /\ inp.bytes = Ascii("1654646404.1234567")
    /\ inp.config.overflow = "Truncate"
    /\ out.ok
    /\ out.v.time.microsecond = 123457

\* the offset an RFC 3339 text ends with: Z or z, a sign with hh:mm or hhmm,
\* or none
TextOffset(bytes) ==
    LET n == Len(bytes)
        isd(i) == bytes[i] \in 48..57
        two(i) == (bytes[i] - 48) * 10 + (bytes[i + 1] - 48)
        sign(i) == IF bytes[i] = 43 THEN 1 ELSE -1
        colon == /\ n >= 6
                 /\ bytes[n - 2] = 58
                 /\ bytes[n - 5] \in {43, 45, 146}
                 /\ isd(n - 4) /\ isd(n - 3) /\ isd(n - 1) /\ isd(n)
        plain == /\ n >= 5
                 /\ bytes[n - 4] \in {43, 45, 146}
                 /\ \A i \in (n - 3)..n : isd(i)
    IN  IF n >= 1 /\ bytes[n] \in {90, 122} THEN Some(0)
        ELSE IF colon THEN Some(sign(n - 5) * (two(n - 4) * 3600 + two(n - 1) * 60))
        ELSE IF plain THEN Some(sign(n - 4) * (two(n - 3) * 3600 + two(n - 1) * 60))
        ELSE Option_None

\* a text of digits, signs, a point and an exponent mark: no RFC 3339 text
NumericText(bytes) == \A i \in 1..Len(bytes) : bytes[i] \in (48..57) \cup {43, 45, 46, 69, 101}

(***************************************************************************)
(* C24: unix_timestamp_offset reaches only values built from a numeric     *)
(* timestamp: Time::from_timestamp_with_config, DateTime::                 *)
(* from_timestamp_with_config and DateTime::parse_bytes_with_config on an  *)
(* integer or fractional timestamp return tz_offset equal to the           *)
(* configured value (Some(o) or none), while an RFC 3339 text parsed by    *)
(* Time::parse_bytes_with_config or DateTime::parse_bytes_with_config      *)
(* returns the offset written in the text, or none.                        *)
(***************************************************************************)
C24_UnixTimestampOffset ==
    /\ (op = "Time::from_timestamp_with_config" /\ out.ok) =>
           out.v.tz_offset = inp.config.unix_timestamp_offset
    /\ (op = "DateTime::from_timestamp_with_config" /\ out.ok) =>
           out.v.time.tz_offset = inp.config.unix_timestamp_offset
    /\ (op = "DateTime::parse_bytes_with_config" /\ out.ok) =>
           out.v.time.tz_offset = IF NumericText(inp.bytes) THEN inp.config.unix_timestamp_offset
                                  ELSE TextOffset(inp.bytes)
    /\ (op = "Time::parse_bytes_with_config" /\ out.ok) =>
           out.v.tz_offset = TextOffset(inp.bytes)

\* an integer timestamp text was parsed with unix_timestamp_offset Some(3600)
C24_Witness ==
    /\ op = "DateTime::parse_bytes_with_config"
    /\ inp.bytes = Ascii("1654646400")
    /\ inp.config.unix_timestamp_offset = Some(3600)
    /\ out.ok
    /\ out.v.time.tz_offset = Some(3600)

(***************************************************************************)
(* Every parser on inputs cut short and on the texts of the other          *)
(* specifications                                                          *)
(***************************************************************************)
TruncatedSources ==
    {"2022-01-01T12:13:14.123456+02:00", "2022-01-01 12:13:14-0130", "P1Y2M3DT4H5M6.5S",
     "+P1.5W", "3 days, 12:13:14.5", "-12:13:14.123456", "12:13:14.123456Z", "+1 d 00:00",
     "9999999999:59:59"}

\* every prefix of every source, the empty one included, and the texts of
\* the other specifications
TruncatedTexts ==
    UNION {{SubSeq(b, 1, k) : k \in 0..Len(b)} : b \in {Ascii(s) : s \in TruncatedSources}}
    \cup DurationTexts \cup PermissiveTexts \cup DateTexts

Parsers ==
    {"Date::parse_bytes_rfc3339", "Time::parse_bytes_with_config",
     "DateTime::parse_bytes_rfc3339_with_config", "DateTime::parse_bytes_with_config",
     "Duration::parse_bytes_with_config"}

\* one of the parsers on one of these texts
ParseTruncated ==
    /\ Start
    /\ \E b \in TruncatedTexts, p \in Parsers :
           /\ op' = p
           /\ inp' = [bytes |-> b, config |-> DefaultTimeConfig]
           /\ out' = CASE p = "Date::parse_bytes_rfc3339" -> parse_bytes_rfc3339(b)
                       [] p = "Time::parse_bytes_with_config" ->
                              Time_parse_bytes_with_config(b, DefaultTimeConfig)
                       [] p = "DateTime::parse_bytes_rfc3339_with_config" ->
                              DateTime_parse_bytes_rfc3339_with_config(b, DefaultTimeConfig)
                       [] p = "DateTime::parse_bytes_with_config" ->
                              DateTime_parse_bytes_with_config(b, DefaultTimeConfig)
                       [] OTHER -> Duration_parse_bytes_with_config(b, DefaultTimeConfig)

NextSafe ==
    \/ ParseTruncated
    \/ DateFromTimestamp

SpecSafe == Init /\ [][NextSafe]_vars

\* the day of the year Date::from_timestamp_calc starts its loop from,
\* before the cast to 16 bits
OrdinalDayBeforeCast(timestamp_second) ==
    LET delta_days == WToInt(WDivTrunc(WSub(timestamp_second, UNIX_0000), 86400))
    IN  (delta_days % 365) - intervening_leap_years(delta_days \div 365) + 1

\* the sums parse_iso_duration holds when it returns, before normalize
IsoSums(bytes) == parse_iso_duration(bytes, IF Get(bytes, 0) = 80 THEN 1 ELSE 2)

(***************************************************************************)
(* C25: no parser and no timestamp conversion panics or reads out of       *)
(* bounds: no call ends in a panic (an underflow of bytes.len() - offset   *)
(* in PureTime::parse or Duration::parse_time, the year counter of         *)
(* Date::from_timestamp_calc going below 0); a parser that got past its    *)
(* length test has the 10 bytes (Date) or the 5 bytes from the offset on   *)
(* (Time at 0, DateTime at 11) that it reads unchecked; for every second   *)
(* count in [-62_167_219_200, 253_402_300_799] the day of the year fits 16 *)
(* bits; and the sums of an ISO duration stay within u32.                  *)
(***************************************************************************)
C25_NoPanic ==
    /\ ~IsErr(out, "panic")
    /\ (op = "Date::parse_bytes_rfc3339" /\ ~IsErr(out, "TooShort")) => Len(inp.bytes) >= 10
    /\ (op = "Time::parse_bytes_with_config" /\ ~IsErr(out, "TooShort")) =>
           Len(inp.bytes) >= 5
    /\ (op = "DateTime::parse_bytes_rfc3339_with_config" /\ out.ok) => Len(inp.bytes) >= 16
    /\ (/\ op = "Date::from_timestamp"
        /\ inp.unit = "Second"
        /\ WLe(UNIX_0000, inp.timestamp)
        /\ WLe(inp.timestamp, UNIX_9999)) =>
           /\ OrdinalDayBeforeCast(inp.timestamp) \in -32768..32767
           /\ out.ok \/ IsErr(out, "DateNotExact")
    /\ (op = "Duration::parse_bytes_with_config" /\ IsoInput(inp.bytes)) =>
           LET sums == IsoSums(inp.bytes)
           IN  sums.ok => /\ WLe(sums.v.day, U32_MAX)
                          /\ WLe(sums.v.second, U32_MAX)
                          /\ WLe(sums.v.microsecond, U32_MAX)

\* a datetime text that ends right after the separator was parsed: the time
\* parser started at offset 11 of 11 bytes
C25_Witness ==
    /\ op = "DateTime::parse_bytes_rfc3339_with_config"
    /\ inp.bytes = Ascii("2022-01-01T")
    /\ IsErr(out, "TooShort")

\* the index after the run of digits that starts at the 1-based index i
DigitsEnd(bytes, i) ==
    CHOOSE j \in i..(Len(bytes) + 1) :
        /\ \A k \in i..(j - 1) : bytes[k] \in 48..57
        /\ j = Len(bytes) + 1 \/ bytes[j] \notin 48..57

\* what the rules of unit order, of the single T and of the last fraction
\* say about the components from the 1-based index i on: the error of the
\* first component that breaks one, "none" when none does, "unknown" for a
\* text that is not a chain of T and <number>[<fraction>]<unit> with
\* numbers of at most four digits
RECURSIVE IsoExpected(_, _, _, _)
IsoExpected(bytes, i, got_t, had_fraction) ==
    IF i > Len(bytes) THEN "none"
    ELSE IF bytes[i] = 84
    THEN IF got_t THEN "DurationTRepeated" ELSE IsoExpected(bytes, i + 1, TRUE, had_fraction)
    ELSE IF bytes[i] \notin 48..57 THEN "unknown"
    ELSE LET e == DigitsEnd(bytes, i)
             fraction == e <= Len(bytes) /\ bytes[e] \in {44, 46}
             u == IF fraction THEN DigitsEnd(bytes, e + 1) ELSE e
             unit == IF u <= Len(bytes) THEN bytes[u] ELSE -1
         IN  IF e - i > 4 THEN "unknown"
             ELSE IF had_fraction THEN "DurationInvalidFraction"
             ELSE IF got_t /\ unit \notin {72, 77, 83} THEN "DurationInvalidTimeUnit"
             ELSE IF ~got_t /\ unit \notin {89, 77, 87, 68} THEN "DurationInvalidDateUnit"
             ELSE IsoExpected(bytes, u + 1, got_t, fraction)

IsoOrderErrors ==
    {"DurationInvalidDateUnit", "DurationInvalidTimeUnit", "DurationTRepeated",
     "DurationInvalidFraction"}

(***************************************************************************)
(* C26: in an ISO 8601 duration the date units Y, M, W, D are accepted     *)
(* only before T and the time units H, M, S only after it                  *)
(* (DurationInvalidDateUnit / DurationInvalidTimeUnit otherwise), a second *)
(* T fails with DurationTRepeated, and at most one component has a         *)
(* fraction, which must be the last one: a component after a fractional    *)
(* one fails with DurationInvalidFraction, as in P1DT1.1M1S and P1.5DT1H.  *)
(***************************************************************************)
C26_IsoUnitOrder ==
    (op = "Duration::parse_bytes_with_config" /\ IsoInput(inp.bytes)) =>
        LET e == IsoExpected(inp.bytes, IF inp.bytes[1] = 80 THEN 2 ELSE 3, FALSE, FALSE)
        IN  /\ e \in IsoOrderErrors => IsErr(out, e)
            /\ e = "none" => out.ok \/ out.e \notin IsoOrderErrors
            /\ inp.bytes \in {Ascii("P1DT1.1M1S"), Ascii("P1.5DT1H")} =>
                   IsErr(out, "DurationInvalidFraction")
            /\ inp.bytes = Ascii("P1DT1MT1S") => IsErr(out, "DurationTRepeated")
            /\ inp.bytes \in {Ascii("P1H"), Ascii("P1S")} =>
                   IsErr(out, "DurationInvalidDateUnit")
            /\ inp.bytes \in {Ascii("PT1Y"), Ascii("PT1W"), Ascii("PT1D")} =>
                   IsErr(out, "DurationInvalidTimeUnit")

\* a whole hour after a fractional day was refused
C26_Witness ==
    /\ op = "Duration::parse_bytes_with_config"
    /\ inp.bytes = Ascii("P1.5DT1H")
    /\ IsErr(out, "DurationInvalidFraction")

\* the 1-based index of the first byte after the sign
ClockFirst(bytes) == IF bytes[1] \in {43, 45} THEN 2 ELSE 1

\* a text the parser takes as clock style: no P after the sign, no d or D,
\* at least five bytes (after the sign as well), and a ':'
ClockInput(bytes) ==
    /\ Len(bytes) >= 5
    /\ ~IsoInput(bytes)
    /\ \A i \in 1..Len(bytes) : bytes[i] \notin {68, 100}
    /\ Len(bytes) - (ClockFirst(bytes) - 1) >= 5
    /\ \E i \in ClockFirst(bytes)..Len(bytes) : bytes[i] = 58

\* the 1-based index of the first ':'
ClockColon(bytes) ==
    CHOOSE i \in ClockFirst(bytes)..Len(bytes) :
        bytes[i] = 58 /\ \A j \in ClockFirst(bytes)..(i - 1) : bytes[j] # 58

\* MM, MM:SS or MM:SS.f with f of one to six digits, minute and second
\* below 60
ClockRest(rest) ==
    LET isd(i) == rest[i] \in 48..57
        two(i) == (rest[i] - 48) * 10 + (rest[i + 1] - 48)
    IN  /\ Len(rest) \in {2, 5} \cup (7..12)
        /\ isd(1) /\ isd(2) /\ two(1) < 60
        /\ Len(rest) >= 5 => rest[3] = 58 /\ isd(4) /\ isd(5) /\ two(4) < 60
        /\ Len(rest) >= 7 => rest[6] \in {44, 46} /\ \A i \in 7..Len(rest) : isd(i)

\* MM * 60 + SS of such a rest
ClockRestSeconds(rest) ==
    ((rest[1] - 48) * 10 + (rest[2] - 48)) * 60
    + (IF Len(rest) >= 5 THEN (rest[4] - 48) * 10 + (rest[5] - 48) ELSE 0)

\* the rule of the hour field with hours of `limit` or more refused
ClockHours(limit) ==
    (op = "Duration::parse_bytes_with_config" /\ ClockInput(inp.bytes)) =>
        LET first == ClockFirst(inp.bytes)
            colon == ClockColon(inp.bytes)
            digits == \A i \in first..(colon - 1) : inp.bytes[i] \in 48..57
            h == DecimalMagnitude(inp.bytes, first, colon - 1)
            rest == SubSeq(inp.bytes, colon + 1, Len(inp.bytes))
        IN  IF colon - first > 10 THEN IsErr(out, "DurationHourValueTooLarge")
            ELSE IF ~digits THEN IsErr(out, "InvalidCharHour")
            ELSE IF ~WLt(h, limit) THEN IsErr(out, "DurationHourValueTooLarge")
            ELSE (colon > first /\ ClockRest(rest)) =>
                     /\ out.ok
                     /\ out.v.day = WDivTrunc(h, 24)
                     /\ out.v.second = W(WRemTrunc(h, 24) * 3600 + ClockRestSeconds(rest))

BeyondWatershed(t) == WLt(MS_WATERSHED, t) \/ WLt(t, WNeg(MS_WATERSHED))

\* Date::from_timestamp(t, false) under the default configuration and
\* DateTime::from_timestamp(t, 0) agree
SameDate(date, datetime) ==
    IF date.ok THEN datetime.ok /\ datetime.v.date = date.v
    ELSE ~datetime.ok /\ datetime.e = date.e

\* the two calls agree on the timestamp of the call in this state
DateAndDateTimeAgree ==
    /\ (op = "Date::from_timestamp" /\ inp.unit = "Infer" /\ ~inp.require_exact) =>
           SameDate(out, DateTime_from_timestamp(inp.timestamp, W(0)))
    /\ (op = "DateTime::from_timestamp" /\ inp.timestamp_microsecond = W(0)) =>
           SameDate(Date_from_timestamp(inp.timestamp, FALSE, "Infer"), out)

\* timestamp_watershed returned what the Millisecond branch returns
MillisecondBranchAgrees ==
    LET ms == timestamp_to_seconds_micros(inp.timestamp, "Millisecond")
    IN  out.ok /\ ms.ok /\ out.v = ms.v

C29_OrderingTransitive ==
    op = "DateTime::partial_cmp" =>
        \A t \in CmpTimes :
            LET c == DateTime(inp.other.date, t)
            IN  /\ (out.v = "Less" /\ DateTime_partial_cmp(inp.other, c) = "Less") =>
                       DateTime_partial_cmp(inp.self, c) = "Less"
                /\ out.v = "Equal" =>
                       DateTime_partial_cmp(inp.self, c) = DateTime_partial_cmp(inp.other, c)

\* the signed length of a duration in microseconds
DurationValue(d) ==
    LET magnitude == WAdd(WMulPow10(WAdd(WMulSmall(d.day, 86400), d.second), 6),
                          d.microsecond)
    IN  IF d.positive THEN magnitude ELSE WNeg(magnitude)

\* the two zero durations, one of each sign
OppositeZeros(a, b) ==
    /\ a.positive # b.positive
    /\ DurationValue(a) = W(0)
    /\ DurationValue(b) = W(0)

\* partial_cmp and == gave what the signed lengths give
AgreesWithValue ==
    /\ op = "Duration::partial_cmp" =>
           (out.v = "Less" <=> WLt(DurationValue(inp.self), DurationValue(inp.other)))
    /\ op = "Duration::eq" =>
           (out.v <=> DurationValue(inp.self) = DurationValue(inp.other))

(***************************************************************************)
(* C30, as stated: for all normalized Durations a and b, with value(d) =   *)
(* sign(d) * (d.day * 86_400_000_000 + d.second * 1_000_000 +              *)
(* d.microsecond), a < b under partial_cmp iff value(a) < value(b) and     *)
(* a == b iff value(a) = value(b), the two zero durations included.        *)
(***************************************************************************)
C30_OrderByValueWithZeros ==
    op \in {"Duration::partial_cmp", "Duration::eq"} => AgreesWithValue

(***************************************************************************)
(* C30, amended: the same for every pair of normalized Durations other     *)
(* than the two zero durations taken together; of these the negative zero  *)
(* is less than the positive zero under partial_cmp and the two are not    *)
(* equal under ==, although both have value 0.                             *)
(***************************************************************************)
C30_OrderByValue ==
    op \in {"Duration::partial_cmp", "Duration::eq"} =>
        IF OppositeZeros(inp.self, inp.other)
        THEN /\ op = "Duration::partial_cmp" =>
                    out.v = IF inp.self.positive THEN "Greater" ELSE "Less"
             /\ op = "Duration::eq" => ~out.v
        ELSE AgreesWithValue

\* minus one day and plus one day were compared with ==
C30_Witness ==
    /\ op = "Duration::eq"
    /\ inp.self = Duration(FALSE, W(1), W(0), W(0))
    /\ inp.other = Duration(TRUE, W(1), W(0), W(0))
    /\ ~out.v

====
